---------------------------- MODULE Spec2Model ----------------------------
(***************************************************************************)
(* Model of the report line-classification engine and of the CSV snapshot  *)
(* loader and diff engine of project-unitrust-api:                         *)
(*   app/parsers/underwriting_parser.py  (parse_report and its strategies) *)
(*   app/parsers/returns_parser.py       (parse_return_items)              *)
(*   app/parsers/csv_parser.py           (parse_csv_robust and its steps,  *)
(*                                        compare_files_as_json_sync)      *)
(*   app/utils/helpers.py                (to_float_premium, date_to_iso,   *)
(*                                        is_valid_policy_number)          *)
(* and, at the end of the module, of the code around them:                 *)
(*   app/returns.py                      (the older parse_return_items)    *)
(*   app/services/file_service.py,                                         *)
(*   app/routes/csv_routes.py            (preview and confirm of uploads)  *)
(*   app/utils/log_buffer.py,                                              *)
(*   app/routes/realtime_logs.py         (the log buffer and its stream)   *)
(*                                                                         *)
(* The report parsers come first.                                          *)
(* Text is modelled as the code sees it after splitlines(): a line is a    *)
(* sequence of tokens (maximal runs of non-space characters, kept as real  *)
(* strings), each with the width g of the run of spaces in front of it.    *)
(* The per-token regular expressions are evaluated character by character; *)
(* the whole-line regular expressions are evaluated on the token/gap       *)
(* structure in the order Python's backtracking matcher explores it.       *)
(* Whitespace is the space character only (the text-extraction layer       *)
(* replaces tabs and non-breaking spaces), and lines carry no trailing     *)
(* whitespace.                                                             *)
(***************************************************************************)
EXTENDS Integers, Sequences, FiniteSets, TLC

(***************************************************************************)
(* Optional values: Python's None is <<>>, a value v is <<v>>.             *)
(***************************************************************************)
None == <<>>
Some(v) == <<v>>
IsNone(o) == o = <<>>
IsSome(o) == o /= <<>>
Get(o) == o[1]

(***************************************************************************)
(* Characters and the str methods the parsers call.                        *)
(***************************************************************************)
UpperAlpha == "ABCDEFGHIJKLMNOPQRSTUVWXYZ"
LowerAlpha == "abcdefghijklmnopqrstuvwxyz"
DigitAlpha == "0123456789"
Chr(s, i) == SubSeq(s, i, i)
CharsOf(s) == {Chr(s, i) : i \in 1..Len(s)}
Upper == CharsOf(UpperAlpha)
Lower == CharsOf(LowerAlpha)
Digit == CharsOf(DigitAlpha)
IndexIn(alpha, c) == CHOOSE i \in 1..Len(alpha) : Chr(alpha, i) = c
DigitVal(c) == IndexIn(DigitAlpha, c) - 1
AllChars(s, C) == \A i \in 1..Len(s) : Chr(s, i) \in C

\* needle in haystack (Python's `in` on str)
Contains(s, p) == \E i \in 1..(Len(s) - Len(p) + 1) : SubSeq(s, i, i + Len(p) - 1) = p

UpChar(c) == IF c \in Lower THEN Chr(UpperAlpha, IndexIn(LowerAlpha, c)) ELSE c
LowChar(c) == IF c \in Upper THEN Chr(LowerAlpha, IndexIn(UpperAlpha, c)) ELSE c

\* str.upper()
RECURSIVE StrUpper(_)
StrUpper(s) == IF Len(s) = 0 THEN "" ELSE UpChar(Head(s)) \o StrUpper(Tail(s))

\* str.title(): a letter that follows a letter is lowered, any other letter
\* is raised; digits and punctuation end a word.
RECURSIVE TitleFrom(_, _)
TitleFrom(s, prevCased) ==
    IF Len(s) = 0 THEN ""
    ELSE LET c == Head(s)
             letter == c \in Upper \/ c \in Lower
         IN  (IF letter THEN (IF prevCased THEN LowChar(c) ELSE UpChar(c)) ELSE c)
                 \o TitleFrom(Tail(s), letter)
StrTitle(s) == TitleFrom(s, FALSE)

\* str.replace(",", "")
RECURSIVE StripCommas(_)
StripCommas(s) ==
    IF Len(s) = 0 THEN ""
    ELSE (IF Head(s) = "," THEN "" ELSE Head(s)) \o StripCommas(Tail(s))

\* value of a string of decimal digits ("" is 0)
RECURSIVE DigitsVal(_)
DigitsVal(s) ==
    IF Len(s) = 0 THEN 0
    ELSE 10 * DigitsVal(SubSeq(s, 1, Len(s) - 1)) + DigitVal(Chr(s, Len(s)))

(***************************************************************************)
(* The per-field regular expressions (each anchored on a whole token).     *)
(***************************************************************************)
NameClass == Upper \cup Digit \cup {" ", ".", ",", "'", "-", "&", "/"}
PlanClass == Upper \cup Digit \cup {"-"}

\* ^\d{9,10}[A-Z]?$
IsPolicyNo(t) ==
    LET n == Len(t)
    IN  \/ n \in {9, 10} /\ AllChars(t, Digit)
        \/ n \in {10, 11} /\ AllChars(SubSeq(t, 1, n - 1), Digit) /\ Chr(t, n) \in Upper

\* ^[A-Z0-9\-]+$
IsPlan(t) == Len(t) >= 1 /\ AllChars(t, PlanClass)

\* ^[\d,]+\.\d{2}$
IsPremium(t) ==
    LET n == Len(t)
    IN  /\ n >= 4
        /\ Chr(t, n - 2) = "."
        /\ AllChars(SubSeq(t, n - 1, n), Digit)
        /\ AllChars(SubSeq(t, 1, n - 3), Digit \cup {","})

\* ^\d{6,7}$
IsAgentId(t) == Len(t) \in {6, 7} /\ AllChars(t, Digit)

\* [A-Z0-9 .,'\-&/]+ on one token
InNameClass(t) == Len(t) >= 1 /\ AllChars(t, NameClass)

StartsWith(s, p) == Len(s) >= Len(p) /\ SubSeq(s, 1, Len(p)) = p
EndsWith(s, p) == Len(s) >= Len(p) /\ SubSeq(s, Len(s) - Len(p) + 1, Len(s)) = p

(***************************************************************************)
(* helpers.to_float_premium: float(s.replace(",", "")), None when float()  *)
(* raises.  The number is kept exactly: the digits of its whole part       *)
(* without leading zeros, and its hundredths.                              *)
(***************************************************************************)
RECURSIVE StripZeros(_)
StripZeros(s) == IF Len(s) > 0 /\ Head(s) = "0" THEN StripZeros(Tail(s)) ELSE s

FloatOf(s) ==
    LET n == Len(s)
        dots == {i \in 1..n : Chr(s, i) = "."}
    IN  IF n = 0 \/ ~AllChars(s, Digit \cup {"."}) \/ Cardinality(dots) > 1
            \/ ~(\E i \in 1..n : Chr(s, i) \in Digit)
        THEN None
        ELSE IF dots = {} THEN Some([whole |-> StripZeros(s), hundredths |-> 0])
        ELSE LET d == CHOOSE i \in dots : TRUE
                 frac == SubSeq(s, d + 1, n)
             IN  IF Len(frac) > 2 THEN None
                 ELSE Some([whole |-> StripZeros(SubSeq(s, 1, d - 1)),
                            hundredths |-> IF Len(frac) = 1 THEN 10 * DigitsVal(frac)
                                           ELSE DigitsVal(frac)])
\* to_float_premium with a fault: the commas are left in
to_float_premium_KeepsCommas(s) == FloatOf(s)
to_float_premium(s) == FloatOf(StripCommas(s))


(***************************************************************************)
(* helpers.date_to_iso: strptime(raw, "%m/%d/%y"), then "%m/%d/%Y"; the    *)
(* first that parses to a calendar date is returned as YYYY-MM-DD.         *)
(*   %m is 1[0-2]|0[1-9]|[1-9], %d is 3[01]|[12]\d|0[1-9]|[1-9]| [1-9],    *)
(*   %y is \d\d (00..68 -> 20xx, 69..99 -> 19xx), %Y is \d\d\d\d.          *)
(***************************************************************************)
\* the fields of s between the separators sep, left to right
RECURSIVE FieldsAcc(_, _, _, _)
FieldsAcc(s, sep, i, acc) ==
    IF i > Len(s) THEN acc
    ELSE IF Chr(s, i) = sep THEN FieldsAcc(s, sep, i + 1, Append(acc, ""))
    ELSE FieldsAcc(s, sep, i + 1, [acc EXCEPT ![Len(acc)] = @ \o Chr(s, i)])
Fields(s, sep) == FieldsAcc(s, sep, 1, <<"">>)

IsNumber(s, lens) == Len(s) \in lens /\ AllChars(s, Digit)
LeapYear(y) == y % 4 = 0 /\ (y % 100 /= 0 \/ y % 400 = 0)
DaysIn(y, m) == IF m = 2 THEN (IF LeapYear(y) THEN 29 ELSE 28)
                ELSE IF m \in {4, 6, 9, 11} THEN 30 ELSE 31
Pad(n, width) ==
    LET d(k) == Chr(DigitAlpha, ((n \div k) % 10) + 1)
    IN  IF width = 2 THEN d(10) \o d(1) ELSE d(1000) \o d(100) \o d(10) \o d(1)
\* date.isoformat()
IsoFormat(y, m, d) == Pad(y, 4) \o "-" \o Pad(m, 2) \o "-" \o Pad(d, 2)

\* the %d directive also accepts a space-padded day, " [1-9]"
IsDay(s) ==
    \/ IsNumber(s, {1, 2})
    \/ Len(s) = 2 /\ Chr(s, 1) = " " /\ Chr(s, 2) \in Digit \ {"0"}
DayVal(s) == IF Chr(s, 1) = " " THEN DigitsVal(Tail(s)) ELSE DigitsVal(s)

\* strptime(raw, "%m/%d/" + year directive).date().isoformat(); None for
\* ValueError.  %y takes the whole year field: two digits followed by more
\* data are "unconverted data", a ValueError.
Strptime_YearPrefix(raw, yearLen) ==
    LET f == Fields(raw, "/")
    IN  IF Len(f) /= 3 \/ ~IsNumber(f[1], {1, 2}) \/ ~IsDay(f[2])
            \/ ~(Len(f[3]) >= yearLen /\ AllChars(f[3], Digit))
        THEN None
        ELSE LET m == DigitsVal(f[1])
                 d == DayVal(f[2])
                 yy == DigitsVal(SubSeq(f[3], 1, yearLen))
                 y == IF yearLen = 4 THEN yy ELSE IF yy <= 68 THEN 2000 + yy ELSE 1900 + yy
             IN  IF m \in 1..12 /\ d >= 1 /\ y >= 1 /\ d <= DaysIn(y, m)
                 THEN Some(IsoFormat(y, m, d)) ELSE None
Strptime(raw, yearLen) ==
    LET f == Fields(raw, "/")
    IN  IF Len(f) /= 3 \/ ~IsNumber(f[1], {1, 2}) \/ ~IsDay(f[2])
            \/ ~IsNumber(f[3], {yearLen})
        THEN None
        ELSE LET m == DigitsVal(f[1])
                 d == DayVal(f[2])
                 yy == DigitsVal(f[3])
                 y == IF yearLen = 4 THEN yy ELSE IF yy <= 68 THEN 2000 + yy ELSE 1900 + yy
             IN  IF m \in 1..12 /\ d >= 1 /\ y >= 1 /\ d <= DaysIn(y, m)
                 THEN Some(IsoFormat(y, m, d)) ELSE None
\* raw.strip()
StripRaw(raw) ==
    LET keep == {i \in 1..Len(raw) : Chr(raw, i) \notin {" ", "\n"}}
    IN  IF keep = {} THEN ""
        ELSE SubSeq(raw, CHOOSE i \in keep : \A j \in keep : i <= j,
                         CHOOSE i \in keep : \A j \in keep : i >= j)
date_to_iso(raw) ==
    LET s == StripRaw(raw)
    IN  IF IsSome(Strptime(s, 2)) THEN Strptime(s, 2) ELSE Strptime(s, 4)

(***************************************************************************)
(* The token expressions of parse_return_items.                            *)
(***************************************************************************)
\* (\d{3}) of the item anchor
IsCompanyCode(t) == IsNumber(t, {3})
\* (\d{10}[A-Z]?) of the item anchor
IsPolicy10(t) ==
    \/ IsNumber(t, {10})
    \/ Len(t) = 11 /\ AllChars(SubSeq(t, 1, 10), Digit) /\ Chr(t, 11) \in Upper
\* re.fullmatch(r'\d{2}', tok)
IsBillDay(t) == IsNumber(t, {2})
\* re.fullmatch(r'\d{2}/\d{2}/\d{2,4}', tok)
IsDateShape(t) ==
    LET f == Fields(t, "/")
    IN  Len(f) = 3 /\ IsNumber(f[1], {2}) /\ IsNumber(f[2], {2}) /\ IsNumber(f[3], {2, 3, 4})
\* re.fullmatch(r'[\d,]*\.\d{2}', raw_amount) or raw_amount == ".00"
IsAmount(t) ==
    LET n == Len(t)
    IN  \/ /\ n >= 3
           /\ Chr(t, n - 2) = "."
           /\ AllChars(SubSeq(t, n - 1, n), Digit)
           /\ AllChars(SubSeq(t, 1, n - 3), Digit \cup {","})
        \/ t = ".00"
\* float(raw_amount.replace(",", "")) if raw_amount != ".00" else 0.0
AmountOf(t) == IF t /= ".00" THEN FloatOf(StripCommas(t))
               ELSE Some([whole |-> "", hundredths |-> 0])
\* config.REASON_START
REASON_START == {"NSF", "RETURN", "PAYMENT", "NO", "ACCT", "ACCOUNT", "CUSTOMER", "CUST",
                 "NOT", "UNABLE", "LOCATE", "LOCAT", "INVALID", "REFER", "STOPPED",
                 "CLOSED", "CODE", "NUMBER", "AUTH", "R98"}
\* tok.upper() in REASON_START or re.fullmatch(r'R\d{2}', tok.upper())
StartsReason(t) ==
    LET u == StrUpper(t)
    IN  u \in REASON_START \/ (Len(u) = 3 /\ Chr(u, 1) = "R" /\ AllChars(SubSeq(u, 2, 3), Digit))
\* ([A-Z]{2}) of the REGION header, ([A-Z]{2}\d{3}) of the AGENCY header
IsRegionCode(t) == Len(t) = 2 /\ AllChars(t, Upper)
IsAgencyCode(t) == Len(t) = 5 /\ AllChars(SubSeq(t, 1, 2), Upper) /\ AllChars(SubSeq(t, 3, 5), Digit)
\* (\d+)-(.+?) at the start of a token: what follows the first "-" when only
\* digits, and at least one, stand in front of it
AfterNumberDash(t) ==
    LET dashes == {i \in 1..Len(t) : Chr(t, i) = "-"}
    IN  IF dashes = {} THEN None
        ELSE LET i == CHOOSE a \in dashes : \A b \in dashes : a <= b
             IN  IF i >= 2 /\ AllChars(SubSeq(t, 1, i - 1), Digit)
                 THEN Some(SubSeq(t, i + 1, Len(t))) ELSE None

(***************************************************************************)
(* The token alphabet of the model: every token of every input line is one *)
(* of these strings.  What the character-level expressions say about a     *)
(* token is computed once per token (TC) and looked up by the parsers.     *)
(***************************************************************************)
UWWords == {"0108338110", "010833811A", "SMITH", "JOHN", "O'NEIL", "Doe", "DOE",
            "DSI5N", "52.61", "1,234.00", "123456", "654321", "MVR", "X", "-APS",
            "PAGE", "2"}
StatusWords == {"SUBMITTED", "ISSUED", "DELIVERED", "DECLINE", "DECLINED",
                "INCOMPLETE", "WITHDRAWN", "UNDERWRITING", "REQUIREMENTS",
                "ADDED", "UPDATED", "Unsubmitted", "TOTAL"}
ReturnWords == {"110", "0107680260", "JOHN", "SMITH", "05", "08/22/2025", "02/30/25",
                "1234", "150.00", ".00", "AG01", "998877", "JANE", "DOE", "NSF", "PAYMENT",
                "r01", "REGION:", "SW", "12-SOUTHWEST", "3-", "AGENCY:", "SW001",
                "7-DALLAS", "RETURNED", "ITEMS", "PRE-NOTES", "PRE", "NOTES", "TOTAL"}
Tokens == UWWords \cup StatusWords \cup ReturnWords \cup {""}

\* the words detect_status looks for inside the collapsed, upper-cased line
HeaderWords == {"ADDED", "UPDATED", "SUBMITTED", "ISSUED", "DELIVERED", "DECLINE",
                "DECLINED", "INCOMPLETE", "WITHDRAWN"}

TokFacts(t) ==
    [policy   |-> IsPolicyNo(t),
     plan     |-> IsPlan(t),
     premium  |-> IsPremium(t),
     agent_id |-> IsAgentId(t),
     name     |-> InNameClass(t),
     dash     |-> StartsWith(t, "-"),
     len      |-> Len(t),
     title    |-> StrTitle(t),
     upper    |-> StrUpper(t),
     float    |-> to_float_premium(t),
     words    |-> {w \in HeaderWords : Contains(StrUpper(t), w)},
     uw_end   |-> EndsWith(StrUpper(t), "UNDERWRITING"),
     req_start |-> StartsWith(StrUpper(t), "REQUIREMENTS"),
     company  |-> IsCompanyCode(t),
     policy10 |-> IsPolicy10(t),
     bill_day |-> IsBillDay(t),
     date     |-> IsDateShape(t),
     iso      |-> date_to_iso(t),
     amount   |-> IF IsAmount(t) THEN AmountOf(t) ELSE None,
     reason   |-> StartsReason(t),
     region   |-> IsRegionCode(t),
     agency   |-> IsAgencyCode(t),
     numdash  |-> AfterNumberDash(t),
     returned_end |-> EndsWith(StrUpper(t), "RETURNED"),
     items_start |-> StartsWith(StrUpper(t), "ITEMS"),
     prenotes_start |-> StartsWith(StrUpper(t), "PRE-NOTES"),
     pre      |-> StrUpper(t) = "PRE",
     notes_start |-> StartsWith(StrUpper(t), "NOTES")]
TC == [t \in Tokens |-> TokFacts(t)]

(***************************************************************************)
(* Lines and text values.  A str is a sequence of [g, t]: token t preceded *)
(* by g spaces.  The blank line is <<>>; the str " " is one empty token    *)
(* preceded by one space.  What the parsers read, Lex(line), carries with  *)
(* each token its facts f; what they return is without them.               *)
(***************************************************************************)
Lex(line) == [a \in 1..Len(line) |-> [g |-> line[a].g, t |-> line[a].t, f |-> TC[line[a].t]]]
Plain(x) == [a \in 1..Len(x) |-> [g |-> x[a].g, t |-> x[a].t]]
Min(S) == CHOOSE a \in S : \A b \in S : a <= b
Max(S) == CHOOSE a \in S : \A b \in S : a >= b

\* tokens i..j of the line as they stand in it (the gaps between them kept)
Orig(line, i, j) ==
    [a \in 1..(j - i + 1) |-> [line[i + a - 1] EXCEPT !.g = IF a = 1 THEN 0 ELSE @]]
\* " ".join(toks)
Joined(toks) == [a \in 1..Len(toks) |-> [toks[a] EXCEPT !.g = IF a = 1 THEN 0 ELSE 1]]
\* str.title() and str.strip() on a text value
Title(x) == [a \in 1..Len(x) |-> [g |-> x[a].g,
                                    t |-> IF x[a].t = "" THEN "" ELSE x[a].f.title]]
Blank == <<[g |-> 1, t |-> ""]>>
Strip(x) == IF x = Blank THEN <<>>
            ELSE [a \in 1..Len(x) |-> [x[a] EXCEPT !.g = IF a = 1 THEN 0 ELSE @]]
\* re.split(r"\s+", line.strip())
Toks(line) == IF line = <<>> THEN <<[g |-> 0, t |-> ""]>> ELSE line
\* re.split(r"\s{2,}", line.strip()): each part is the list of its tokens,
\* which stand one space apart
RECURSIVE SplitAcc(_, _, _)
SplitAcc(line, i, parts) ==
    IF i > Len(line) THEN parts
    ELSE IF i > 1 /\ line[i].g >= 2
         THEN SplitAcc(line, i + 1, Append(parts, <<line[i]>>))
         ELSE SplitAcc(line, i + 1, [parts EXCEPT ![Len(parts)] = Append(@, line[i])])
SplitWide(line) == SplitAcc(line, 1, << <<>> >>)
\* a part that an expression without a space can match: one token
Single(part) == Len(part) = 1

P_policy(tok) == tok.f.policy
P_plan(tok) == tok.f.plan
P_premium(tok) == tok.f.premium
P_agent_id(tok) == tok.f.agent_id
P_name(tok) == tok.f.name
AllName(line, i, j) == \A a \in i..j : P_name(line[a])

(***************************************************************************)
(* POLICY_RE.match(line).  The policy group is the whole first token; the  *)
(* lazy name group takes the fewest tokens k such that plan, premium and   *)
(* agent id are the next three tokens and every later token is in the      *)
(* agent class; when no such k exists and three or more spaces follow the  *)
(* policy number, the name group is one of those spaces.                   *)
(***************************************************************************)
POLICY_RE(line) ==
    LET n == Len(line)
        fits(k) == /\ P_plan(line[k + 1])
                   /\ P_premium(line[k + 2])
                   /\ P_agent_id(line[k + 3])
                   /\ AllName(line, k + 4, n)
        K == {k \in 2..(n - 4) : AllName(line, 2, k) /\ fits(k)}
        grp(k, name) == [policy |-> line[1].t, name |-> name, plan |-> line[k + 1].t,
                         premium |-> line[k + 2], agent_id |-> line[k + 3].t,
                         agent |-> Orig(line, k + 4, n)]
    IN  IF n = 0 \/ ~P_policy(line[1]) THEN None
        ELSE IF K /= {} THEN Some(grp(Min(K), Orig(line, 2, Min(K))))
        ELSE IF n >= 5 /\ line[2].g >= 3 /\ fits(1) THEN Some(grp(1, Blank))
        ELSE None

(***************************************************************************)
(* UW_RE.match(line).  Name and requirement are both lazy and each must be *)
(* followed by two or more spaces; the requirement is at least two         *)
(* characters, does not start with "-", and may start with a space of the  *)
(* gap in front of it when that gap is three or more wide.                 *)
(***************************************************************************)
\* the requirement group starting at token s (lead: with one space in front)
UWReq(line, s, lead) ==
    LET n == Len(line)
        M == {m \in s..(n - 2) :
                /\ lead \/ m > s \/ line[s].f.len >= 2
                /\ line[m + 1].g >= 2
                /\ P_agent_id(line[m + 1])
                /\ AllName(line, m + 2, n)}
    IN  IF (~lead /\ line[s].f.dash) \/ M = {} THEN None
        ELSE LET m == Min(M)
             IN  Some([requirement |-> IF lead
                                       THEN [Orig(line, s, m) EXCEPT ![1].g = 1]
                                       ELSE Orig(line, s, m),
                       agent_id |-> line[m + 1].t,
                       agent |-> Orig(line, m + 2, n)])
\* the requirement after a name that ends in front of token s
UWAfter(line, s, room) ==
    LET r == UWReq(line, s, FALSE)
    IN  IF IsSome(r) \/ line[s].g < room + 3 THEN r ELSE UWReq(line, s, TRUE)
UW_RE(line) ==
    LET n == Len(line)
        K == {k \in 2..(n - 1) : /\ AllName(line, 2, k)
                                 /\ line[k + 1].g >= 2
                                 /\ IsSome(UWAfter(line, k + 1, 0))}
        grp(name, r) == [policy |-> line[1].t, name |-> name,
                         requirement |-> r.requirement, agent_id |-> r.agent_id,
                         agent |-> r.agent]
    IN  IF n = 0 \/ ~P_policy(line[1]) THEN None
        ELSE IF K /= {}
             THEN Some(grp(Orig(line, 2, Min(K)), Get(UWAfter(line, Min(K) + 1, 0))))
        ELSE IF n >= 2 /\ line[2].g >= 4 /\ IsSome(UWAfter(line, 2, 2))
             THEN Some(grp(Blank, Get(UWAfter(line, 2, 2))))
        ELSE None

(***************************************************************************)
(* Outcome of a call that may raise: <<>> is "returned None", <<v>> is     *)
(* "returned v", and a pair <<e, "raised">> is "raised exception e".       *)
(***************************************************************************)
Raise(e) == <<e, "raised">>
IsRaise(r) == Len(r) = 2

\* the six targets of `policy, name, plan, premium, agent_id, agent = parts[:6]`
\* and the five of `policy, name, requirement, agent_id, agent = parts[:5]`:
\* the assignment raises ValueError when the slice is shorter
Unpacks(parts, k) == Len(parts) >= k

\* _parse_policy_line_by_columns with a fault: no `if len(parts) < 6: return None`
_parse_policy_line_by_columns_NoLengthCheck(line) ==
    LET parts == SplitWide(line)
    IN  IF ~Unpacks(parts, 6) THEN Raise("ValueError")
        ELSE IF ~(Single(parts[1]) /\ P_policy(parts[1][1])) THEN None
        ELSE IF ~(Single(parts[3]) /\ P_plan(parts[3][1])) THEN None
        ELSE IF ~(Single(parts[4]) /\ P_premium(parts[4][1])) THEN None
        ELSE IF ~(Single(parts[5]) /\ P_agent_id(parts[5][1])) THEN None
        ELSE Some([policy_no |-> parts[1][1].t,
                   insured_name |-> Title(Joined(parts[2])),
                   plan |-> Some(parts[3][1].t),
                   annual_premium |-> parts[4][1].f.float,
                   agent_id |-> parts[5][1].t,
                   writing_agent |-> Title(Joined(parts[6])),
                   requirement_desc |-> None])

_parse_policy_line_by_columns(line) ==
    LET parts == SplitWide(line)
    IN  IF Len(parts) < 6 THEN None
        ELSE IF ~Unpacks(parts, 6) THEN Raise("ValueError")
        ELSE IF ~(Single(parts[1]) /\ P_policy(parts[1][1])) THEN None
        ELSE IF ~(Single(parts[3]) /\ P_plan(parts[3][1])) THEN None
        ELSE IF ~(Single(parts[4]) /\ P_premium(parts[4][1])) THEN None
        ELSE IF ~(Single(parts[5]) /\ P_agent_id(parts[5][1])) THEN None
        ELSE Some([policy_no |-> parts[1][1].t,
                   insured_name |-> Title(Joined(parts[2])),
                   plan |-> Some(parts[3][1].t),
                   annual_premium |-> parts[4][1].f.float,
                   agent_id |-> parts[5][1].t,
                   writing_agent |-> Title(Joined(parts[6])),
                   requirement_desc |-> None])

_parse_uw_line_by_columns(line) ==
    LET parts == SplitWide(line)
    IN  IF Len(parts) < 5 THEN None
        ELSE IF ~Unpacks(parts, 5) THEN Raise("ValueError")
        ELSE IF ~(Single(parts[1]) /\ P_policy(parts[1][1])) THEN None
        ELSE IF ~(Single(parts[4]) /\ P_agent_id(parts[4][1])) THEN None
        ELSE Some([policy_no |-> parts[1][1].t,
                   insured_name |-> Title(Joined(parts[2])),
                   plan |-> None,
                   annual_premium |-> None,
                   agent_id |-> parts[4][1].t,
                   writing_agent |-> Title(Joined(parts[5])),
                   requirement_desc |-> Some(Plain(Joined(parts[3])))])

\* _parse_policy_line_by_tokens with a fault: min() for max(), the leftmost agent id
_parse_policy_line_by_tokens_LeftmostId(line) ==
    LET parts == Toks(line)
        n == Len(parts)
        ids == {i \in 1..n : P_agent_id(parts[i])}
    IN  IF n < 6 THEN None
        ELSE IF ~P_policy(parts[1]) THEN None
        ELSE IF ids = {} THEN None            \* max() of nothing: ValueError, caught
        ELSE LET agent_id_idx == Min(ids)
                 name_tokens == SubSeq(parts, 2, agent_id_idx - 3)
                 agent_tokens == SubSeq(parts, agent_id_idx + 1, n)
             IN  IF agent_id_idx - 1 < 1 THEN None
                 ELSE IF ~P_premium(parts[agent_id_idx - 1]) THEN None
                 ELSE IF agent_id_idx - 2 < 1 THEN None
                 ELSE IF ~P_plan(parts[agent_id_idx - 2]) THEN None
                 ELSE IF name_tokens = <<>> THEN None
                 ELSE IF agent_tokens = <<>> THEN None
                 ELSE Some([policy_no |-> parts[1].t,
                            insured_name |-> Title(Joined(name_tokens)),
                            plan |-> Some(parts[agent_id_idx - 2].t),
                            annual_premium |-> parts[agent_id_idx - 1].f.float,
                            agent_id |-> parts[agent_id_idx].t,
                            writing_agent |-> Title(Joined(agent_tokens)),
                            requirement_desc |-> None])

\* indices are those of the code plus one (sequences start at 1)
_parse_policy_line_by_tokens(line) ==
    LET parts == Toks(line)
        n == Len(parts)
        ids == {i \in 1..n : P_agent_id(parts[i])}
    IN  IF n < 6 THEN None
        ELSE IF ~P_policy(parts[1]) THEN None
        ELSE IF ids = {} THEN None            \* max() of nothing: ValueError, caught
        ELSE LET agent_id_idx == Max(ids)
                 name_tokens == SubSeq(parts, 2, agent_id_idx - 3)
                 agent_tokens == SubSeq(parts, agent_id_idx + 1, n)
             IN  IF agent_id_idx - 1 < 1 THEN None
                 ELSE IF ~P_premium(parts[agent_id_idx - 1]) THEN None
                 ELSE IF agent_id_idx - 2 < 1 THEN None
                 ELSE IF ~P_plan(parts[agent_id_idx - 2]) THEN None
                 ELSE IF name_tokens = <<>> THEN None
                 ELSE IF agent_tokens = <<>> THEN None
                 ELSE Some([policy_no |-> parts[1].t,
                            insured_name |-> Title(Joined(name_tokens)),
                            plan |-> Some(parts[agent_id_idx - 2].t),
                            annual_premium |-> parts[agent_id_idx - 1].f.float,
                            agent_id |-> parts[agent_id_idx].t,
                            writing_agent |-> Title(Joined(agent_tokens)),
                            requirement_desc |-> None])

(***************************************************************************)
(* parse_report.detect_status.  u is the line with runs of spaces          *)
(* collapsed, stripped and upper-cased, so a word is in u when it is in    *)
(* some token, and "UNDERWRITING REQUIREMENTS" is in u when one token ends *)
(* with the first word and the next token starts with the second.          *)
(***************************************************************************)
InU(line, w) == \E i \in 1..Len(line) : w \in line[i].f.words
UWReqInU(line) ==
    \E i \in 1..(Len(line) - 1) : line[i].f.uw_end /\ line[i + 1].f.req_start

\* detect_status with a fault: ISSUED is looked for before SUBMITTED
detect_status_IssuedFirst(line) ==
    IF Len(line) = 0 THEN None
    ELSE IF UWReqInU(line) /\ InU(line, "ADDED") THEN Some("UNDERWRITING REQUIREMENTS ADDED")
    ELSE IF UWReqInU(line) /\ InU(line, "UPDATED") THEN Some("UNDERWRITING REQUIREMENTS UPDATED")
    ELSE IF InU(line, "ISSUED") THEN Some("ISSUED")
    ELSE IF InU(line, "SUBMITTED") THEN Some("SUBMITTED")
    ELSE IF InU(line, "DELIVERED") THEN Some("DELIVERED")
    ELSE IF InU(line, "DECLINE") \/ InU(line, "DECLINED") THEN Some("DECLINE")
    ELSE IF InU(line, "INCOMPLETE") THEN Some("INCOMPLETE")
    ELSE IF InU(line, "WITHDRAWN") THEN Some("WITHDRAWN")
    ELSE None

detect_status(line) ==
    IF Len(line) = 0 THEN None
    ELSE IF UWReqInU(line) /\ InU(line, "ADDED") THEN Some("UNDERWRITING REQUIREMENTS ADDED")
    ELSE IF UWReqInU(line) /\ InU(line, "UPDATED") THEN Some("UNDERWRITING REQUIREMENTS UPDATED")
    ELSE IF InU(line, "SUBMITTED") THEN Some("SUBMITTED")
    ELSE IF InU(line, "ISSUED") THEN Some("ISSUED")
    ELSE IF InU(line, "DELIVERED") THEN Some("DELIVERED")
    ELSE IF InU(line, "DECLINE") \/ InU(line, "DECLINED") THEN Some("DECLINE")
    ELSE IF InU(line, "INCOMPLETE") THEN Some("INCOMPLETE")
    ELSE IF InU(line, "WITHDRAWN") THEN Some("WITHDRAWN")
    ELSE None

(***************************************************************************)
(* One iteration of the loop of parse_report on a line, from the current   *)
(* status: what happens to status and what is appended to out.             *)
(*   [status, emit, exc]: emit is <<>> or <<record>>.                      *)
(***************************************************************************)
PolicySections == {Some("SUBMITTED"), Some("ISSUED"), Some("DELIVERED"), Some("DECLINE"),
                   Some("INCOMPLETE"), Some("WITHDRAWN"), Some("UNKNOWN"), None}
RequirementSections == {Some("UNDERWRITING REQUIREMENTS ADDED"),
                        Some("UNDERWRITING REQUIREMENTS UPDATED")}
\* status or "UNKNOWN"
OrUnknown(status) == IF IsNone(status) THEN "UNKNOWN" ELSE Get(status)
WithStatus(parsed, st) ==
    [status |-> st, policy_no |-> parsed.policy_no, insured_name |-> parsed.insured_name,
     plan |-> parsed.plan, annual_premium |-> parsed.annual_premium,
     agent_id |-> parsed.agent_id, writing_agent |-> parsed.writing_agent,
     requirement_desc |-> parsed.requirement_desc]

\* the dict appended after UW_RE matched
RequirementRecord(m, st) ==
    [status |-> st,
     policy_no |-> m.policy,
     insured_name |-> Title(m.name),
     plan |-> None,
     annual_premium |-> None,
     agent_id |-> m.agent_id,
     writing_agent |-> Title(m.agent),
     requirement_desc |-> Some(Plain(Strip(m.requirement)))]
\* the dict appended after POLICY_RE matched
PolicyRecord(m, st) ==
    [status |-> st,
     policy_no |-> m.policy,
     insured_name |-> Title(m.name),
     plan |-> Some(m.plan),
     annual_premium |-> m.premium.f.float,
     agent_id |-> m.agent_id,
     writing_agent |-> Title(m.agent),
     requirement_desc |-> None]

Emit(rec) == [emit |-> <<rec>>, exc |-> FALSE]
Nothing == [emit |-> <<>>, exc |-> FALSE]
Raised == [emit |-> <<>>, exc |-> TRUE]
\* `parsed = f(line)` followed by `if parsed: out.append(...); continue`, else rest
Fallback(parsed, st, rest) ==
    IF IsRaise(parsed) THEN Raised
    ELSE IF IsSome(parsed) THEN Emit(WithStatus(Get(parsed), st))
    ELSE rest
\* `m = RE.match(line)` followed by `if m: out.append(rec); continue`, else rest
Matched(m, rec, rest) ==
    IF IsSome(m) THEN Emit(rec) ELSE rest

\* the block under `if status in ("UNDERWRITING REQUIREMENTS ADDED", ...)`
RequirementBlock(line, status) ==
    IF status \notin RequirementSections THEN Nothing
    ELSE Matched(UW_RE(line), RequirementRecord(Get(UW_RE(line)), Get(status)),
            Fallback(_parse_uw_line_by_columns(line), Get(status), Nothing))

\* PolicyBlock with a fault: the token split is tried first
PolicyBlock_TokensFirst(line, status) ==
    IF status \notin PolicySections THEN RequirementBlock(line, status)
    ELSE Fallback(_parse_policy_line_by_tokens(line), OrUnknown(status),
            Matched(POLICY_RE(line), PolicyRecord(Get(POLICY_RE(line)), OrUnknown(status)),
                Fallback(_parse_policy_line_by_columns(line), OrUnknown(status),
                    RequirementBlock(line, status))))

\* the block under `if status in ("SUBMITTED", ..., "UNKNOWN", None)`; a line
\* that no strategy parses falls through to the requirement block
PolicyBlock(line, status) ==
    IF status \notin PolicySections THEN RequirementBlock(line, status)
    ELSE Matched(POLICY_RE(line), PolicyRecord(Get(POLICY_RE(line)), OrUnknown(status)),
            Fallback(_parse_policy_line_by_columns(line), OrUnknown(status),
                Fallback(_parse_policy_line_by_tokens(line), OrUnknown(status),
                    RequirementBlock(line, status))))

\* ReportLoopBody with a fault: a blank line forgets the section
ReportLoopBody_BlankResets(line, status) ==
    IF Len(line) = 0 THEN [status |-> None, emit |-> <<>>, exc |-> FALSE]
    ELSE LET new_status == detect_status(line)
         IN  IF IsSome(new_status)
             THEN [status |-> new_status, emit |-> <<>>, exc |-> FALSE]
             ELSE LET b == PolicyBlock(line, status)
                  IN  [status |-> status, emit |-> b.emit, exc |-> b.exc]
\* ReportLoopBody with a fault: no `continue` after a header line
ReportLoopBody_HeaderFallsThrough(line, status) ==
    IF Len(line) = 0 THEN [status |-> status, emit |-> <<>>, exc |-> FALSE]
    ELSE LET new_status == detect_status(line)
             st == IF IsSome(new_status) THEN new_status ELSE status
             b == PolicyBlock(line, st)
         IN  [status |-> st, emit |-> b.emit, exc |-> b.exc]

ReportLoopBody(line, status) ==
    IF Len(line) = 0 THEN [status |-> status, emit |-> <<>>, exc |-> FALSE]
    ELSE LET new_status == detect_status(line)
         IN  IF IsSome(new_status)
             THEN [status |-> new_status, emit |-> <<>>, exc |-> FALSE]
             ELSE LET b == PolicyBlock(line, status)
                  IN  [status |-> status, emit |-> b.emit, exc |-> b.exc]

(***************************************************************************)
(* parse_return_items.                                                     *)
(***************************************************************************)
UpperText(x) == [a \in 1..Len(x) |-> [g |-> x[a].g, t |-> x[a].f.upper]]

\* re.match(r'^\s*<word>\s+(<code>)\s+(\d+)-(.+?)\s*$', ln): the code and the
\* stripped description, or None
HeaderMatch(line, word, codeOk) ==
    LET n == Len(line)
    IN  IF n < 3 \/ line[1].t /= word \/ ~codeOk \/ IsNone(line[3].f.numdash)
        THEN None
        ELSE LET first == Get(line[3].f.numdash)
             IN  IF first /= ""
                 THEN Some([code |-> line[2].t,
                            desc |-> <<[g |-> 0, t |-> first]>> \o Plain(Tail(Orig(line, 3, n)))])
                 ELSE IF n >= 4
                 THEN Some([code |-> line[2].t, desc |-> Plain(Orig(line, 4, n))])
                 ELSE None
P_region(tok) == tok.f.region
P_agency(tok) == tok.f.agency
REGION_RE(line) == HeaderMatch(line, "REGION:", Len(line) >= 2 /\ P_region(line[2]))
AGENCY_RE(line) == HeaderMatch(line, "AGENCY:", Len(line) >= 2 /\ P_agency(line[2]))

\* "RETURNED ITEMS" in u, for u = ln.upper().strip(): the two words one space apart
HasReturnedItems(line) ==
    \E i \in 1..(Len(line) - 1) :
        line[i].f.returned_end /\ line[i + 1].g = 1 /\ line[i + 1].f.items_start
\* "RETURNED PRE-NOTES" in u or "RETURNED PRE NOTES" in u
HasReturnedPreNotes(line) ==
    \/ \E i \in 1..(Len(line) - 1) :
         line[i].f.returned_end /\ line[i + 1].g = 1 /\ line[i + 1].f.prenotes_start
    \/ \E i \in 1..(Len(line) - 2) :
         /\ line[i].f.returned_end /\ line[i + 1].g = 1 /\ line[i + 1].f.pre
         /\ line[i + 2].g = 1 /\ line[i + 2].f.notes_start
SectionAfter(line, section) ==
    IF HasReturnedItems(line) THEN Some("RETURNED ITEMS")
    ELSE IF HasReturnedPreNotes(line) THEN Some("RETURNED PRE-NOTES")
    ELSE section

\* re.match(r'^\s*(\d{3})\s+(\d{10}[A-Z]?)\s+(.+)$', ln)
ItemAnchor(line) ==
    Len(line) >= 3 /\ line[1].f.company /\ line[2].f.policy10

\* the split of the trailing tokens rest2 into agent name and reason
\* (reason_idx is the code's index plus one; 0 stands for None)
ReasonIdx(rest2) ==
    LET hits == {k \in 1..Len(rest2) : rest2[k].f.reason}
    IN  IF hits = {} THEN 0 ELSE Min(hits)
AgentNameOf(rest2) ==
    LET reason_idx == ReasonIdx(rest2)
    IN  IF reason_idx /= 0 /\ reason_idx > 1
        THEN Some(Title(Joined(SubSeq(rest2, 1, reason_idx - 1))))
        ELSE IF rest2 /= <<>> THEN Some(Title(Joined(SubSeq(rest2, 1, Len(rest2) - 1))))
        ELSE None
ReasonOf(rest2) ==
    LET reason_idx == ReasonIdx(rest2)
    IN  IF reason_idx /= 0
        THEN Some(UpperText(Joined(SubSeq(rest2, reason_idx, Len(rest2)))))
        ELSE IF rest2 /= <<>> THEN Some(UpperText(Joined(<<rest2[Len(rest2)]>>)))
        ELSE None

\* tokens[idx + k] if idx + k < len(tokens) else None  (idx is the code's index plus one)
TokenAt(tokens, i) == IF i <= Len(tokens) THEN Some(tokens[i]) ELSE None
TextAt(tokens, i) == IF i <= Len(tokens) THEN Some(tokens[i].t) ELSE None

\* ItemOf with a fault: the scan for the bill-day/date pair keeps the last hit
ItemOf_RightmostPair(line, section, region, agency) ==
    LET tokens == [a \in 1..(Len(line) - 2) |-> line[a + 2]]
        pairs == {i \in 1..(Len(tokens) - 1) : tokens[i].f.bill_day /\ tokens[i + 1].f.date}
    IN  IF Len(tokens) < 8 THEN None
        ELSE IF pairs = {} THEN None
        ELSE LET idx == Max(pairs)
                 raw_amount == TokenAt(tokens, idx + 3)
                 rest2 == SubSeq(tokens, idx + 6, Len(tokens))
             IN  Some([section |-> section,
                       company_code |-> line[1].t,
                       policy_no |-> line[2].t,
                       insured_name |-> Title(Joined(SubSeq(tokens, 1, idx - 1))),
                       bill_day |-> tokens[idx].t,
                       issue_date |-> tokens[idx + 1].f.iso,
                       bill_no |-> TextAt(tokens, idx + 2),
                       amount |-> IF IsSome(raw_amount) THEN Get(raw_amount).f.amount ELSE None,
                       agency_code_line |-> TextAt(tokens, idx + 4),
                       agent_num |-> TextAt(tokens, idx + 5),
                       agent_name |-> AgentNameOf(rest2),
                       reason |-> ReasonOf(rest2),
                       page_region_code |-> region.code,
                       page_region_desc |-> region.desc,
                       page_agency_code |-> agency.code,
                       page_agency_desc |-> agency.desc])

\* the item of an anchored line, or None when the line is dropped
ItemOf(line, section, region, agency) ==
    LET tokens == [a \in 1..(Len(line) - 2) |-> line[a + 2]]
        pairs == {i \in 1..(Len(tokens) - 1) : tokens[i].f.bill_day /\ tokens[i + 1].f.date}
    IN  IF Len(tokens) < 8 THEN None
        ELSE IF pairs = {} THEN None
        ELSE LET idx == Min(pairs)
                 raw_amount == TokenAt(tokens, idx + 3)
                 rest2 == SubSeq(tokens, idx + 6, Len(tokens))
             IN  Some([section |-> section,
                       company_code |-> line[1].t,
                       policy_no |-> line[2].t,
                       insured_name |-> Title(Joined(SubSeq(tokens, 1, idx - 1))),
                       bill_day |-> tokens[idx].t,
                       issue_date |-> tokens[idx + 1].f.iso,
                       bill_no |-> TextAt(tokens, idx + 2),
                       amount |-> IF IsSome(raw_amount) THEN Get(raw_amount).f.amount ELSE None,
                       agency_code_line |-> TextAt(tokens, idx + 4),
                       agent_num |-> TextAt(tokens, idx + 5),
                       agent_name |-> AgentNameOf(rest2),
                       reason |-> ReasonOf(rest2),
                       page_region_code |-> region.code,
                       page_region_desc |-> region.desc,
                       page_agency_code |-> agency.code,
                       page_agency_desc |-> agency.desc])

\* page_region_code, page_region_desc = m.group(1), m.group(2).strip()
Context(m) == [code |-> Some(m.code), desc |-> Some(m.desc)]
\* one iteration of the loop: the locals after the line, the item appended
\* (emit is <<>> or <<item>>) and the list it is appended to
NoContext == [code |-> None, desc |-> None]
\* ReturnsLoopBody with a fault: the list is chosen by the section in force
\* before the line
ReturnsLoopBody_RoutesByOldSection(line, section, region, agency) ==
    LET same == [section |-> section, region |-> region, agency |-> agency,
                 emit |-> <<>>, list |-> "none"]
        sec == SectionAfter(line, section)
        item == ItemOf(line, sec, region, agency)
    IN  IF IsSome(REGION_RE(line))
        THEN [same EXCEPT !.region = Context(Get(REGION_RE(line)))]
        ELSE IF IsSome(AGENCY_RE(line))
        THEN [same EXCEPT !.agency = Context(Get(AGENCY_RE(line)))]
        ELSE IF ~ItemAnchor(line) \/ IsNone(item)
        THEN [same EXCEPT !.section = sec]
        ELSE [same EXCEPT !.section = sec, !.emit = item,
                          !.list = IF section = Some("RETURNED PRE-NOTES")
                                   THEN "returned_pre_notes" ELSE "returned_items"]
\* ReturnsLoopBody with a fault: no `continue` after a REGION header
ReturnsLoopBody_RegionFallsThrough(line, section, region, agency) ==
    LET reg == IF IsSome(REGION_RE(line)) THEN Context(Get(REGION_RE(line))) ELSE region
        same == [section |-> section, region |-> reg, agency |-> agency,
                 emit |-> <<>>, list |-> "none"]
        sec == SectionAfter(line, section)
        item == ItemOf(line, sec, reg, agency)
    IN  IF IsSome(AGENCY_RE(line)) /\ IsNone(REGION_RE(line))
        THEN [same EXCEPT !.agency = Context(Get(AGENCY_RE(line)))]
        ELSE IF ~ItemAnchor(line) \/ IsNone(item)
        THEN [same EXCEPT !.section = sec]
        ELSE [same EXCEPT !.section = sec, !.emit = item,
                          !.list = IF sec = Some("RETURNED PRE-NOTES")
                                   THEN "returned_pre_notes" ELSE "returned_items"]
ReturnsLoopBody(line, section, region, agency) ==
    LET same == [section |-> section, region |-> region, agency |-> agency,
                 emit |-> <<>>, list |-> "none"]
        sec == SectionAfter(line, section)
        item == ItemOf(line, sec, region, agency)
    IN  IF IsSome(REGION_RE(line))
        THEN [same EXCEPT !.region = Context(Get(REGION_RE(line)))]
        ELSE IF IsSome(AGENCY_RE(line))
        THEN [same EXCEPT !.agency = Context(Get(AGENCY_RE(line)))]
        ELSE IF ~ItemAnchor(line) \/ IsNone(item)
        THEN [same EXCEPT !.section = sec]
        ELSE [same EXCEPT !.section = sec, !.emit = item,
                          !.list = IF sec = Some("RETURNED PRE-NOTES")
                                   THEN "returned_pre_notes" ELSE "returned_items"]

(***************************************************************************)
(* Inputs.  Sp: tokens one space apart; Wd: tokens two spaces apart; Ln:   *)
(* the gap in front of each token given (the first is the indentation).    *)
(***************************************************************************)
Ln(gaps, toks) == [a \in 1..Len(toks) |-> [g |-> gaps[a], t |-> toks[a]]]
Sp(toks) == [a \in 1..Len(toks) |-> [g |-> IF a = 1 THEN 0 ELSE 1, t |-> toks[a]]]
Wd(toks) == [a \in 1..Len(toks) |-> [g |-> IF a = 1 THEN 0 ELSE 2, t |-> toks[a]]]

MaxLines == 3

\* the lines an underwriting report is made of in the model
ReportLines ==
    { <<>>,
      Sp(<<"SUBMITTED">>), Sp(<<"ISSUED">>), Sp(<<"DELIVERED">>), Sp(<<"DECLINED">>),
      Sp(<<"INCOMPLETE">>), Sp(<<"WITHDRAWN">>),
      Wd(<<"UNDERWRITING", "REQUIREMENTS", "ADDED">>),
      Sp(<<"UNDERWRITING", "REQUIREMENTS", "UPDATED">>),
      \* a header that has the shape of a policy-activity line (plan ISSUED)
      Sp(<<"0108338110", "SMITH", "ISSUED", "52.61", "123456", "DOE">>),
      \* a header that has the shape of a requirement line
      Wd(<<"0108338110", "SMITH", "SUBMITTED", "123456", "DOE">>),
      \* matched by the strict pattern
      Sp(<<"0108338110", "SMITH", "JOHN", "DSI5N", "52.61", "123456", "DOE">>),
      \* matched by the strict pattern, the column split and the requirement pattern
      Wd(<<"010833811A", "O'NEIL", "DSI5N", "1,234.00", "654321", "DOE">>),
      \* strict pattern and token split both succeed, on different agent ids
      Sp(<<"0108338110", "SMITH", "DSI5N", "52.61", "123456", "52.61", "654321", "DOE">>),
      \* lower case in the name: column split only
      Wd(<<"0108338110", "Doe", "DSI5N", "1,234.00", "123456", "DOE">>),
      \* lower case in the name: token split only
      Sp(<<"0108338110", "Doe", "DSI5N", "52.61", "123456", "DOE">>),
      \* requirement line matched by UW_RE
      Ln(<<0, 1, 2, 1, 2, 2>>, <<"0108338110", "SMITH", "MVR", "X", "123456", "DOE">>),
      \* requirement line for the column split only
      Wd(<<"0108338110", "Doe", "MVR", "123456", "DOE">>),
      \* noise
      Sp(<<"PAGE", "2">>) }

\* the lines a return-drafts report is made of in the model
ItemHead == <<"110", "0107680260", "JOHN", "SMITH", "05", "08/22/2025", "1234", "150.00",
              "AG01", "998877">>
ReturnLines ==
    { <<>>,
      Sp(<<"REGION:", "SW", "12-SOUTHWEST">>),
      Sp(<<"REGION:", "SW", "3-", "RETURNED", "ITEMS">>),
      Sp(<<"AGENCY:", "SW001", "7-DALLAS">>),
      Sp(<<"AGENCY:", "SW001", "12-SOUTHWEST", "RETURNED", "PRE-NOTES">>),
      Sp(<<"RETURNED", "ITEMS">>),
      Sp(<<"RETURNED", "PRE-NOTES">>),
      Sp(ItemHead \o <<"JANE", "DOE", "NSF", "PAYMENT">>),
      Sp(ItemHead \o <<"NSF", "PAYMENT">>),
      Sp(ItemHead \o <<"JANE", "DOE">>),
      \* an item line that carries a section title
      Sp(<<"110", "0107680260", "RETURNED", "PRE", "NOTES", "05", "02/30/25", "1234", ".00",
           "AG01", "998877", "JANE", "r01">>),
      \* anchored, fewer than 8 tokens
      Sp(SubSeq(ItemHead, 1, 8)),
      \* anchored, no bill-day/date pair
      Sp(<<"110", "0107680260", "JOHN", "SMITH", "05", "05", "1234", "150.00", "AG01",
           "998877", "JANE">>),
      \* noise
      Sp(<<"TOTAL", "1234">>) }

(***************************************************************************)
(* The loop bodies on the model's lines, computed once.                    *)
(***************************************************************************)
Statuses == PolicySections \cup RequirementSections
ReportStep == [line \in ReportLines, st \in Statuses |-> ReportLoopBody(Lex(line), st)]

Sections == {None, Some("RETURNED ITEMS"), Some("RETURNED PRE-NOTES")}
Regions == {NoContext} \cup {Context(Get(m)) : m \in {REGION_RE(Lex(l)) : l \in ReturnLines} \ {None}}
Agencies == {NoContext} \cup {Context(Get(m)) : m \in {AGENCY_RE(Lex(l)) : l \in ReturnLines} \ {None}}
ReturnsStep == [line \in ReturnLines, sec \in Sections, reg \in Regions, ag \in Agencies |->
                    ReturnsLoopBody(Lex(line), sec, reg, ag)]

(***************************************************************************)
(* State.  One behaviour is one call: of parse_report or                   *)
(* parse_return_items on a text whose lines are consumed one loop          *)
(* iteration at a time, or of one of the line-level functions on arg.      *)
(***************************************************************************)
VARIABLES
    call,                \* the function called
    pc,                  \* "loop" | "returned" | "raised"   ("call" before a line-level call)
    text,                \* the lines of the input consumed so far
    status, out,         \* parse_report: the locals status and out
    out_src,             \* for each record of out, the number of the line it came from
    section, region, agency,                \* parse_return_items: section and page context
    returned_items, returned_pre_notes,     \* parse_return_items: the two result lists
    items_src, pre_src,  \* for each item of the two lists, the number of its line
    arg, ret,            \* argument and result of a line-level call
    config,              \* the module-level lists of app/config.py that a call could change
    invocations,         \* the calls of the parsers that run side by side, each with its locals
    upload_cache,        \* file_service.upload_cache: token -> cached upload
    tokens_issued,       \* the number of tokens cache_upload has made
    files, objects,      \* Back4App: the files posted and the Csv objects created, in order
    requests,            \* the requests of /compare/preview and /compare/confirm
    running,             \* the request whose coroutine holds the event loop, 0 for none
    buffer,              \* log_buffer.buffer
    active_subscribers,  \* realtime_logs.active_subscribers
    subscriber,          \* the LogSubscriber of the stream: active and last_log_count
    stream,              \* where the stream is: handler, response, generator
    received,            \* the log entries sent to the client of the stream, in order
    connected_at         \* the number of entries logged when the client connected

callVars == <<call, pc, text, arg, ret>>
reportVars == <<status, out, out_src>>
returnsVars == <<section, region, agency, returned_items, returned_pre_notes, items_src, pre_src>>
concurrentVars == <<config, invocations>>
uploadVars == <<upload_cache, tokens_issued, files, objects, requests, running>>
logVars == <<buffer, active_subscribers, subscriber, stream, received, connected_at>>
serviceVars == <<concurrentVars, uploadVars, logVars>>
vars == <<callVars, reportVars, returnsVars, serviceVars>>

\* config.POLICY_COLUMN_CANDIDATES
POLICY_COLUMN_CANDIDATES ==
    <<"Policy", "Company", "PolicyNumber", "PolicyNo", "Policy_Number", "POLICY", "COMPANY">>
\* the same list with each name as the key of a row
Preferred == [i \in 1..Len(POLICY_COLUMN_CANDIDATES) |-> Some(POLICY_COLUMN_CANDIDATES[i])]
\* the module-level state of the application when it has started
Imported ==
    /\ config = [POLICY_COLUMN_CANDIDATES |-> Preferred]
    /\ invocations = <<>>
    /\ upload_cache = <<>> /\ tokens_issued = 0
    /\ files = <<>> /\ objects = <<>>
    /\ requests = <<>> /\ running = 0
    /\ buffer = <<>> /\ active_subscribers = {}
    /\ subscriber = None /\ stream = "none"
    /\ received = <<>> /\ connected_at = 0

Locals ==
    /\ text = <<>>
    /\ status = None /\ out = <<>> /\ out_src = <<>>
    /\ section = None /\ region = NoContext /\ agency = NoContext
    /\ returned_items = <<>> /\ returned_pre_notes = <<>>
    /\ items_src = <<>> /\ pre_src = <<>>
    /\ Imported

Init ==
    /\ call \in {"parse_report", "parse_return_items"}
    /\ pc = "loop"
    /\ arg = None /\ ret = None
    /\ Locals

\* parse_report: one iteration of `for raw in text.splitlines()`
ReportLine ==
    /\ call = "parse_report" /\ pc = "loop" /\ Len(text) < MaxLines
    /\ \E line \in ReportLines :
         LET b == ReportStep[line, status]
         IN  /\ text' = Append(text, line)
             /\ status' = b.status
             /\ out' = out \o b.emit
             /\ out_src' = IF b.emit = <<>> THEN out_src ELSE Append(out_src, Len(text) + 1)
             /\ pc' = IF b.exc THEN "raised" ELSE "loop"
    /\ UNCHANGED <<call, arg, ret, returnsVars, serviceVars>>

\* parse_report: `return out` when the lines are exhausted
ReportReturn ==
    /\ call = "parse_report" /\ pc = "loop"
    /\ pc' = "returned"
    /\ ret' = Some(out)
    /\ UNCHANGED <<call, text, arg, reportVars, returnsVars, serviceVars>>

\* parse_return_items: one iteration of `for ln in text.splitlines()`
ReturnsLine ==
    /\ call = "parse_return_items" /\ pc = "loop" /\ Len(text) < MaxLines
    /\ \E line \in ReturnLines :
         LET b == ReturnsStep[line, section, region, agency]
             n == Len(text) + 1
         IN  /\ text' = Append(text, line)
             /\ section' = b.section
             /\ region' = b.region
             /\ agency' = b.agency
             /\ returned_items' = IF b.list = "returned_items"
                                  THEN returned_items \o b.emit ELSE returned_items
             /\ returned_pre_notes' = IF b.list = "returned_pre_notes"
                                      THEN returned_pre_notes \o b.emit ELSE returned_pre_notes
             /\ items_src' = IF b.list = "returned_items" THEN Append(items_src, n) ELSE items_src
             /\ pre_src' = IF b.list = "returned_pre_notes" THEN Append(pre_src, n) ELSE pre_src
    /\ UNCHANGED <<call, pc, arg, ret, reportVars, serviceVars>>

\* parse_return_items: the return of the two lists
ReturnsReturn ==
    /\ call = "parse_return_items" /\ pc = "loop"
    /\ pc' = "returned"
    /\ ret' = Some([returned_items |-> returned_items, returned_pre_notes |-> returned_pre_notes])
    /\ UNCHANGED <<call, text, arg, reportVars, returnsVars, serviceVars>>

Next == ReportLine \/ ReportReturn \/ ReturnsLine \/ ReturnsReturn
Spec == Init /\ [][Next]_vars
\* the interpreter runs the loop to its end: a call that can take a step takes one
LiveSpec == Init /\ [][Next]_vars /\ WF_vars(Next)
(***************************************************************************)
(* What the parts of parse_report make of each line of the model.          *)
(***************************************************************************)
HeaderOf == [line \in ReportLines |-> detect_status(Lex(line))]
StrictOf == [line \in ReportLines |-> POLICY_RE(Lex(line))]
ByColumnsOf == [line \in ReportLines |-> _parse_policy_line_by_columns(Lex(line))]
ByTokensOf == [line \in ReportLines |-> _parse_policy_line_by_tokens(Lex(line))]
UWStrictOf == [line \in ReportLines |-> UW_RE(Lex(line))]
UWByColumnsOf == [line \in ReportLines |-> _parse_uw_line_by_columns(Lex(line))]

\* the numbers of the header lines in front of line j, and the section they leave
HeadersBefore(j) == {h \in 1..(j - 1) : IsSome(HeaderOf[text[h]])}
LastHeader(j) == IF HeadersBefore(j) = {} THEN None ELSE HeaderOf[text[Max(HeadersBefore(j))]]
Records == 1..Len(out)

\* C1: the section is the one named by the last header line read (none before
\* the first header), whatever lines were read since; and each record has the
\* section of the last header line in front of its line, "UNKNOWN" without one.
C1_SectionFollowsHeaders ==
    call = "parse_report" =>
        /\ status = LastHeader(Len(text) + 1)
        /\ \A i \in Records : out[i].status = OrUnknown(LastHeader(out_src[i]))
\* a record behind two header lines of different sections
C1_Witness ==
    /\ call = "parse_report"
    /\ \E i \in Records : \E h1, h2 \in HeadersBefore(out_src[i]) :
          /\ h1 < h2
          /\ HeaderOf[text[h1]] /= HeaderOf[text[h2]]
          /\ out[i].status = Get(HeaderOf[text[h2]])

\* C3: no record comes from a line that some header rule matches.
C3_HeaderLineEmitsNothing ==
    call = "parse_report" => \A i \in Records : IsNone(HeaderOf[text[out_src[i]]])
\* a header line that POLICY_RE matches was read in a policy-activity section
C3_Witness ==
    /\ call = "parse_report"
    /\ \E j \in 1..Len(text) :
          /\ IsSome(HeaderOf[text[j]])
          /\ IsSome(StrictOf[text[j]])
          /\ LastHeader(j) \in PolicySections
          /\ \A i \in Records : out_src[i] /= j

\* the record of the first of the three strategies that succeeds on the line
FirstSuccess(line, st) ==
    IF IsSome(StrictOf[line]) THEN Some(PolicyRecord(Get(StrictOf[line]), st))
    ELSE IF IsSome(ByColumnsOf[line]) THEN Some(WithStatus(Get(ByColumnsOf[line]), st))
    ELSE IF IsSome(ByTokensOf[line]) THEN Some(WithStatus(Get(ByTokensOf[line]), st))
    ELSE None
PolicyLine(j) ==
    text[j] /= <<>> /\ IsNone(HeaderOf[text[j]]) /\ LastHeader(j) \in PolicySections

\* C4: a non-empty, non-header line of a policy-activity section on which a
\* strategy succeeds yields the record of the first of strict pattern, column
\* split and token split that succeeds, and no line yields two records.
C4_FirstStrategyWins ==
    call = "parse_report" =>
        /\ \A i, k \in Records : i < k => out_src[i] < out_src[k]
        /\ \A j \in 1..Len(text) :
              PolicyLine(j) /\ IsSome(FirstSuccess(text[j], "")) =>
                  \E i \in Records :
                      /\ out_src[i] = j
                      /\ out[i] = Get(FirstSuccess(text[j], OrUnknown(LastHeader(j))))
\* a record of the strict pattern from a line the token split reads differently
C4_Witness ==
    /\ call = "parse_report"
    /\ \E i \in Records :
          /\ IsSome(StrictOf[text[out_src[i]]])
          /\ IsSome(ByTokensOf[text[out_src[i]]])
          /\ Get(ByTokensOf[text[out_src[i]]]).agent_id /= Get(StrictOf[text[out_src[i]]]).agent_id
          /\ out[i].agent_id = Get(StrictOf[text[out_src[i]]]).agent_id

PolicyShape(r) ==
    /\ IsSome(r.plan) /\ IsSome(r.annual_premium) /\ IsNone(r.requirement_desc)
    /\ r.status \in {"SUBMITTED", "ISSUED", "DELIVERED", "DECLINE", "INCOMPLETE",
                     "WITHDRAWN", "UNKNOWN"}
RequirementShape(r) ==
    /\ IsNone(r.plan) /\ IsNone(r.annual_premium) /\ IsSome(r.requirement_desc)
    /\ r.status \in {"UNDERWRITING REQUIREMENTS ADDED", "UNDERWRITING REQUIREMENTS UPDATED"}

\* C5: every record has plan and premium and no requirement in a
\* policy-activity section, or a requirement and neither plan nor premium in
\* a requirements section.
C5_TwoShapes ==
    \A i \in Records : PolicyShape(out[i]) \/ RequirementShape(out[i])
\* a record of each shape, the policy one with a premium written with a comma
C5_Witness ==
    \E i, k \in Records :
        /\ PolicyShape(out[i])
        /\ out[i].annual_premium = Some([whole |-> "1234", hundredths |-> 0])
        /\ RequirementShape(out[k])

(***************************************************************************)
(* What the parts of parse_return_items make of each line of the model.    *)
(***************************************************************************)
RegionOf == [line \in ReturnLines |-> REGION_RE(Lex(line))]
AgencyOf == [line \in ReturnLines |-> AGENCY_RE(Lex(line))]
\* the section title in a line that is neither a REGION nor an AGENCY header
TitleOf == [line \in ReturnLines |->
               IF IsSome(REGION_RE(Lex(line))) \/ IsSome(AGENCY_RE(Lex(line))) THEN None
               ELSE SectionAfter(Lex(line), None)]
\* the line has the grammar of an item
ItemLineOf == [line \in ReturnLines |->
                  /\ IsNone(REGION_RE(Lex(line))) /\ IsNone(AGENCY_RE(Lex(line)))
                  /\ ItemAnchor(Lex(line))
                  /\ IsSome(ItemOf(Lex(line), None, NoContext, NoContext))]

\* the section in force when line j is classified: the last title up to and
\* including line j
TitlesUpTo(j) == {h \in 1..j : IsSome(TitleOf[text[h]])}
SectionAt(j) == IF TitlesUpTo(j) = {} THEN None ELSE TitleOf[text[Max(TitlesUpTo(j))]]
RegionsBefore(j) == {h \in 1..(j - 1) : IsSome(RegionOf[text[h]])}
AgenciesBefore(j) == {h \in 1..(j - 1) : IsSome(AgencyOf[text[h]])}
LastRegion(j) == IF RegionsBefore(j) = {} THEN NoContext
                 ELSE Context(Get(RegionOf[text[Max(RegionsBefore(j))]]))
LastAgency(j) == IF AgenciesBefore(j) = {} THEN NoContext
                 ELSE Context(Get(AgencyOf[text[Max(AgenciesBefore(j))]]))
Increasing(src) == \A i, k \in 1..Len(src) : i < k => src[i] < src[k]
Range(src) == {src[i] : i \in 1..Len(src)}
\* the line read by the step
Read == text'[Len(text')]
Reads == Len(text') = Len(text) + 1

\* no grammar of the current section matches the line
UnmatchedReport(line, st) ==
    /\ IsNone(HeaderOf[line])
    /\ st \in PolicySections =>
           IsNone(StrictOf[line]) /\ IsNone(ByColumnsOf[line]) /\ IsNone(ByTokensOf[line])
    /\ st \in RequirementSections => IsNone(UWStrictOf[line]) /\ IsNone(UWByColumnsOf[line])
UnmatchedReturns(line) ==
    /\ IsNone(RegionOf[line]) /\ IsNone(AgencyOf[line])
    /\ IsNone(TitleOf[line]) /\ ~ItemLineOf[line]
Unmatched(line) ==
    IF call = "parse_report" THEN UnmatchedReport(line, status) ELSE UnmatchedReturns(line)

\* C7: parse_report and parse_return_items never raise and end by returning
\* what they collected, nothing else; reading a line that no grammar of the
\* current section matches changes neither the section, nor the page context,
\* nor the records and items collected so far.
C7_Tolerant ==
    /\ [](pc /= "raised")
    /\ [](pc = "returned" =>
            ret = IF call = "parse_report" THEN Some(out)
                  ELSE Some([returned_items |-> returned_items,
                             returned_pre_notes |-> returned_pre_notes]))
    /\ [][Reads /\ Unmatched(Read) => pc' = "loop" /\ UNCHANGED <<reportVars, returnsVars>>]_vars
    /\ <>(pc = "returned")
\* a parser returned what it had collected in front of an unmatched, non-blank line
C7_Witness ==
    /\ pc = "returned"
    /\ Len(text) = 3
    /\ text[3] /= <<>>
    /\ \/ call = "parse_report" /\ UnmatchedReport(text[3], LastHeader(3)) /\ Len(out) = 1
                                /\ IsSome(LastHeader(3))
       \/ call = "parse_return_items" /\ UnmatchedReturns(text[3]) /\ Len(returned_pre_notes) = 1

\* C8: an item is in returned_pre_notes exactly when the section in force at
\* its line is "RETURNED PRE-NOTES", and in returned_items otherwise; each
\* line with the grammar of an item is in exactly one list, and each list is
\* in the order of the lines.
C8_OneListPerItem ==
    call = "parse_return_items" =>
        /\ \A i \in 1..Len(returned_pre_notes) :
              /\ SectionAt(pre_src[i]) = Some("RETURNED PRE-NOTES")
              /\ returned_pre_notes[i].section = Some("RETURNED PRE-NOTES")
        /\ \A i \in 1..Len(returned_items) :
              /\ SectionAt(items_src[i]) /= Some("RETURNED PRE-NOTES")
              /\ returned_items[i].section = SectionAt(items_src[i])
        /\ Len(items_src) = Len(returned_items) /\ Len(pre_src) = Len(returned_pre_notes)
        /\ Range(items_src) \cap Range(pre_src) = {}
        /\ Range(items_src) \cup Range(pre_src) = {j \in 1..Len(text) : ItemLineOf[text[j]]}
        /\ Increasing(items_src) /\ Increasing(pre_src)
\* an item in each list, the pre-note from a line that carries the title itself
C8_Witness ==
    /\ call = "parse_return_items"
    /\ Len(returned_items) >= 1
    /\ \E i \in 1..Len(returned_pre_notes) : IsSome(TitleOf[text[pre_src[i]]])

CarriesContext(item, j) ==
    /\ item.page_region_code = LastRegion(j).code
    /\ item.page_region_desc = LastRegion(j).desc
    /\ item.page_agency_code = LastAgency(j).code
    /\ item.page_agency_desc = LastAgency(j).desc
ListVars == <<returned_items, returned_pre_notes, items_src, pre_src>>

\* C9: every item carries code and description of the last REGION header and
\* of the last AGENCY header in front of its line, absent without one; a
\* REGION header changes the region pair only, an AGENCY header the agency
\* pair only: section and both lists stay as they are.
C9_PageContext ==
    /\ [](call = "parse_return_items" =>
            /\ \A i \in 1..Len(returned_items) : CarriesContext(returned_items[i], items_src[i])
            /\ \A i \in 1..Len(returned_pre_notes) :
                  CarriesContext(returned_pre_notes[i], pre_src[i]))
    /\ [][call = "parse_return_items" /\ Reads /\ IsSome(RegionOf[Read]) =>
            /\ region' = Context(Get(RegionOf[Read]))
            /\ UNCHANGED <<agency, section, ListVars>>]_vars
    /\ [][call = "parse_return_items" /\ Reads /\ IsSome(AgencyOf[Read]) =>
            /\ agency' = Context(Get(AgencyOf[Read]))
            /\ UNCHANGED <<region, section, ListVars>>]_vars
\* an item behind a REGION header that replaced an earlier, different one
C9_Witness ==
    /\ call = "parse_return_items"
    /\ \E i \in 1..Len(returned_items) : \E h1, h2 \in RegionsBefore(items_src[i]) :
          /\ h1 < h2
          /\ RegionOf[text[h1]] /= RegionOf[text[h2]]
          /\ returned_items[i].page_region_desc = Some(Get(RegionOf[text[h2]]).desc)
          /\ IsNone(returned_items[i].page_agency_code)

(***************************************************************************)
(* Calls of the line-level functions: the argument is chosen in the        *)
(* initial state, one step computes the result.                            *)
(***************************************************************************)
\* the token sequences of 1..n tokens over an alphabet
SeqsUpTo(alphabet, n) == UNION {[1..k -> alphabet] : k \in 1..n}
\* tokens w spaces apart
Spaced(toks, w) == [a \in 1..Len(toks) |-> [g |-> IF a = 1 THEN 0 ELSE w, t |-> toks[a]]]

MaxHeaderTokens == 4
HeaderAlphabet == {"SUBMITTED", "ISSUED", "DELIVERED", "DECLINED", "INCOMPLETE", "WITHDRAWN",
                   "UNDERWRITING", "REQUIREMENTS", "ADDED", "UPDATED"}
InitStatus ==
    /\ call = "detect_status" /\ pc = "call"
    /\ \E toks \in SeqsUpTo(HeaderAlphabet, MaxHeaderTokens), w \in {1, 2} : arg = Spaced(toks, w)
    /\ ret = None
    /\ Locals
DetectStatusCall ==
    /\ call = "detect_status" /\ pc = "call"
    /\ ret' = detect_status(Lex(arg))
    /\ pc' = "returned"
    /\ UNCHANGED <<call, text, arg, reportVars, returnsVars, serviceVars>>
SpecStatus == InitStatus /\ [][DetectStatusCall]_vars

\* the eight rules, in the order of the claim
RuleHit(i, line) ==
    CASE i = 1 -> UWReqInU(line) /\ InU(line, "ADDED")
      [] i = 2 -> UWReqInU(line) /\ InU(line, "UPDATED")
      [] i = 3 -> InU(line, "SUBMITTED")
      [] i = 4 -> InU(line, "ISSUED")
      [] i = 5 -> InU(line, "DELIVERED")
      [] i = 6 -> InU(line, "DECLINE") \/ InU(line, "DECLINED")
      [] i = 7 -> InU(line, "INCOMPLETE")
      [] i = 8 -> InU(line, "WITHDRAWN")
RuleSection ==
    <<"UNDERWRITING REQUIREMENTS ADDED", "UNDERWRITING REQUIREMENTS UPDATED", "SUBMITTED",
      "ISSUED", "DELIVERED", "DECLINE", "INCOMPLETE", "WITHDRAWN">>
RulesHit(line) == {i \in 1..8 : RuleHit(i, line)}

\* C2: detect_status returns the section of the lowest-numbered rule that
\* matches the line, and None when no rule matches.
C2_FirstRuleWins ==
    call = "detect_status" /\ pc = "returned" =>
        ret = IF RulesHit(Lex(arg)) = {} THEN None
              ELSE Some(RuleSection[Min(RulesHit(Lex(arg)))])
\* a line that rules 1 and 2 both match
C2_Witness ==
    /\ call = "detect_status" /\ pc = "returned"
    /\ {1, 2} \subseteq RulesHit(Lex(arg))
    /\ ret = Some("UNDERWRITING REQUIREMENTS ADDED")

MaxPolicyTokens == 8
PolicyAlphabet == {"SMITH", "DSI5N", "52.61", "123456", "654321"}
\* lines that start with a policy number
InitStrategies ==
    /\ call = "strategies" /\ pc = "call"
    /\ \E toks \in SeqsUpTo(PolicyAlphabet, MaxPolicyTokens - 1), w \in {1, 2} :
           arg = Spaced(<<"0108338110">> \o toks, w)
    /\ ret = None
    /\ Locals
\* POLICY_RE.match(line), the two fallback parsers and the column split of
\* the requirement lines on the same line
StrategiesCall ==
    /\ call = "strategies" /\ pc = "call"
    /\ ret' = [strict |-> POLICY_RE(Lex(arg)),
               columns |-> _parse_policy_line_by_columns(Lex(arg)),
               tokens |-> _parse_policy_line_by_tokens(Lex(arg)),
               uw_columns |-> _parse_uw_line_by_columns(Lex(arg))]
    /\ pc' = "returned"
    /\ UNCHANGED <<call, text, arg, reportVars, returnsVars, serviceVars>>
SpecPolicyLine == InitStrategies /\ [][StrategiesCall]_vars

Agrees(m, parsed) ==
    IsSome(parsed) => Get(parsed).policy_no = Get(m).policy /\ Get(parsed).agent_id = Get(m).agent_id

\* C6: on a line that POLICY_RE matches, the column split and the token
\* split, when they succeed, return the policy number and the agent id of
\* the strict match.
C6_FallbacksAgreeWithStrict ==
    call = "strategies" /\ pc = "returned" /\ IsSome(ret.strict) =>
        Agrees(ret.strict, ret.columns) /\ Agrees(ret.strict, ret.tokens)

MaxTrail == 3
TrailAlphabet == {"JANE", "DOE", "NSF", "PAYMENT", "r01"}
InitTrailing ==
    /\ call = "split_trailing" /\ pc = "call"
    /\ arg \in {<<>>} \cup SeqsUpTo(TrailAlphabet, MaxTrail)
    /\ ret = None
    /\ Locals
\* the split of rest2 = arg into agent_name and reason
SplitTrailingCall ==
    /\ call = "split_trailing" /\ pc = "call"
    /\ ret' = [agent_name |-> AgentNameOf(Lex(Spaced(arg, 1))),
               reason |-> ReasonOf(Lex(Spaced(arg, 1)))]
    /\ pc' = "returned"
    /\ UNCHANGED <<call, text, arg, reportVars, returnsVars, serviceVars>>
SpecTrailing == InitTrailing /\ [][SplitTrailingCall]_vars

\* the split point k of the claim, counted from 1: the first token that starts
\* a reason, the last token when there is none
IsReasonStart == [t \in TrailAlphabet |-> TC[t].reason]
SplitPoint(toks) ==
    IF \E k \in 1..Len(toks) : IsReasonStart[toks[k]]
    THEN Min({k \in 1..Len(toks) : IsReasonStart[toks[k]]})
    ELSE Len(toks)
TitleOfTokens(toks) == Title(Lex(Spaced(toks, 1)))
UpperOfTokens(toks) == UpperText(Lex(Spaced(toks, 1)))

\* C10: the agent name is the tokens in front of the split point, title-cased
\* (empty or absent when the split point is the first token), and the reason
\* is the tokens from the split point on, upper-cased.
C10_SplitAtOnePoint ==
    call = "split_trailing" /\ pc = "returned" /\ arg /= <<>> =>
        /\ ret.reason = Some(UpperOfTokens(SubSeq(arg, SplitPoint(arg), Len(arg))))
        /\ IF SplitPoint(arg) = 1 THEN ret.agent_name \in {None, Some(<<>>)}
           ELSE ret.agent_name = Some(TitleOfTokens(SubSeq(arg, 1, SplitPoint(arg) - 1)))

(***************************************************************************)
(* app/parsers/csv_parser.py.  A text is the sequence of its lines (broken *)
(* at "\n", the only line break of the model) and nl, whether it ends with *)
(* a line break.  Lines and cells are real strings.                        *)
(***************************************************************************)
Quote == "\""
Text(lines, nl) == [lines |-> lines, nl |-> nl]
\* an empty last line shows as nl
IsText(lines, nl) == nl \/ lines = <<>> \/ lines[Len(lines)] /= ""
\* str.splitlines()
splitlines(content) == content.lines
\* "\n".join(lines): an empty last line shows as a final line break
JoinLines(lines) ==
    IF lines = <<>> \/ lines = <<"">> THEN Text(<<>>, FALSE)
    ELSE IF lines[Len(lines)] = "" THEN Text(SubSeq(lines, 1, Len(lines) - 1), TRUE)
    ELSE Text(lines, FALSE)

\* str.replace('""', '"'): the occurrences are taken from the left, without overlap
RECURSIVE CollapseQuotes(_)
CollapseQuotes(s) ==
    IF Len(s) < 2 THEN s
    ELSE IF SubSeq(s, 1, 2) = Quote \o Quote THEN Quote \o CollapseQuotes(SubSeq(s, 3, Len(s)))
    ELSE Head(s) \o CollapseQuotes(Tail(s))

\* the loop body of normalize_csv_content with a fault: the doubled quotes stay
NormalizeLine_KeepsDoubled(ln) ==
    IF StartsWith(ln, Quote) /\ EndsWith(ln, Quote) THEN SubSeq(ln, 2, Len(ln) - 1) ELSE ln
\* the loop body of normalize_csv_content: one line of fixed_lines
NormalizeLine(ln) ==
    IF StartsWith(ln, Quote) /\ EndsWith(ln, Quote)
    THEN CollapseQuotes(SubSeq(ln, 2, Len(ln) - 1))
    ELSE ln
normalize_csv_content(content) ==
    JoinLines([i \in 1..Len(splitlines(content)) |-> NormalizeLine(splitlines(content)[i])])

(***************************************************************************)
(* Calls of normalize_csv_content on texts of one or two lines, each line  *)
(* either as it is or wrapped: in one more pair of quotes, with its own    *)
(* quotes doubled.                                                         *)
(***************************************************************************)
MaxLineLen == 3
LineAlphabet == {Quote, ",", "a"}
RECURSIVE Concat(_)
Concat(cs) == IF cs = <<>> THEN "" ELSE Head(cs) \o Concat(Tail(cs))
LinesUpTo(n) == {""} \cup {Concat(cs) : cs \in SeqsUpTo(LineAlphabet, n)}
RECURSIVE DoubleQuotes(_)
DoubleQuotes(s) ==
    IF Len(s) = 0 THEN ""
    ELSE (IF Head(s) = Quote THEN Quote \o Quote ELSE Head(s)) \o DoubleQuotes(Tail(s))
Wrap(ln) == Quote \o DoubleQuotes(ln) \o Quote
\* arg: the lines and which of them are wrapped in the text
Written(a) == [i \in 1..Len(a) |-> IF a[i].wrapped THEN Wrap(a[i].line) ELSE a[i].line]
InitNormalize ==
    /\ call = "normalize_csv_content" /\ pc = "call"
    /\ \E n \in 1..2 :
         arg \in [1..n -> [line : LinesUpTo(MaxLineLen), wrapped : BOOLEAN]]
    /\ ret = None
    /\ Locals
NormalizeCall ==
    /\ call = "normalize_csv_content" /\ pc = "call"
    /\ \E nl \in BOOLEAN :
         /\ IsText(Written(arg), nl)
         /\ ret' = normalize_csv_content(Text(Written(arg), nl))
    /\ pc' = "returned"
    /\ UNCHANGED <<call, text, arg, reportVars, returnsVars, serviceVars>>
SpecNormalize == InitNormalize /\ [][NormalizeCall]_vars

QuotedBothEnds(ln) == StartsWith(ln, Quote) /\ EndsWith(ln, Quote)
\* C17: a wrapped line normalizes to the line that was wrapped, and a line
\* that does not both start and end with a quote is left as it is, so the
\* result is the text of the unwrapped lines.
C17_NormalizeInvertsWrap ==
    call = "normalize_csv_content" /\ pc = "returned"
        /\ (\A i \in 1..Len(arg) : arg[i].wrapped \/ ~QuotedBothEnds(arg[i].line)) =>
        ret = JoinLines([i \in 1..Len(arg) |-> arg[i].line])
\* a wrapped line with quotes of its own next to a line left alone
C17_Witness ==
    /\ call = "normalize_csv_content" /\ pc = "returned"
    /\ Len(arg) = 2
    /\ arg[1].wrapped /\ arg[1].line = "a" \o Quote \o ","
    /\ ~arg[2].wrapped /\ arg[2].line = Quote \o "a"
    /\ ret = Text(<<arg[1].line, arg[2].line>>, FALSE)

(***************************************************************************)
(* csv.reader and csv.DictReader as parse_csv_robust calls them (dialect   *)
(* excel: delimiter ",", quote character, doubled quotes, not strict) on   *)
(* io.StringIO(content).  The parser reads the characters of each line,    *)
(* its "\n", then an end-of-line mark; a quoted field may run over lines.  *)
(***************************************************************************)
EOL == "EOL"
Fresh == [state |-> "START_RECORD", field |-> "", fields |-> <<>>]
ParseChar(p, c) ==
    LET brk == c = "\n" \/ c = EOL
        after == IF c = EOL THEN "START_RECORD" ELSE "EAT_CRNL"
        save(st) == [state |-> st, field |-> "", fields |-> Append(p.fields, p.field)]
        add(st) == [p EXCEPT !.field = @ \o c, !.state = st]
    IN  CASE p.state = "START_RECORD" /\ c = EOL -> p
          [] p.state = "START_RECORD" /\ c = "\n" -> [p EXCEPT !.state = "EAT_CRNL"]
          [] (p.state = "START_RECORD" /\ ~brk) \/ p.state = "START_FIELD" ->
                IF brk THEN save(after)
                ELSE IF c = Quote THEN [p EXCEPT !.state = "IN_QUOTED_FIELD"]
                ELSE IF c = "," THEN save("START_FIELD")
                ELSE add("IN_FIELD")
          [] p.state = "IN_FIELD" ->
                IF brk THEN save(after)
                ELSE IF c = "," THEN save("START_FIELD")
                ELSE add("IN_FIELD")
          [] p.state = "IN_QUOTED_FIELD" ->
                IF c = EOL THEN p
                ELSE IF c = Quote THEN [p EXCEPT !.state = "QUOTE_IN_QUOTED_FIELD"]
                ELSE add("IN_QUOTED_FIELD")
          [] p.state = "QUOTE_IN_QUOTED_FIELD" ->
                IF c = Quote THEN add("IN_QUOTED_FIELD")
                ELSE IF c = "," THEN save("START_FIELD")
                ELSE IF brk THEN save(after)
                ELSE add("IN_FIELD")
          [] p.state = "EAT_CRNL" ->
                IF c = "\n" THEN p
                ELSE IF c = EOL THEN [p EXCEPT !.state = "START_RECORD"]
                ELSE [p EXCEPT !.state = "Error"]
          [] OTHER -> p
\* the parser after the characters lo..hi of s, taken in order (by halves);
\* after an error nothing more is read
RECURSIVE ParseChars(_, _, _, _)
ParseChars(p, s, lo, hi) ==
    IF lo > hi THEN p
    ELSE IF lo = hi THEN ParseChar(p, Chr(s, lo))
    ELSE LET q == ParseChars(p, s, lo, (lo + hi) \div 2)
         IN  IF q.state = "Error" THEN q ELSE ParseChars(q, s, (lo + hi) \div 2 + 1, hi)
\* the reader after line i: p the parser in the record it is in, recs the
\* records it has yielded
ReadLine(r, content, i) ==
    LET brk == IF i < Len(content.lines) \/ content.nl THEN "\n" ELSE ""
        q == ParseChar(ParseChars(r.p, content.lines[i] \o brk, 1, Len(content.lines[i] \o brk)), EOL)
    IN  IF q.state = "START_RECORD" THEN [p |-> Fresh, recs |-> Append(r.recs, q.fields)]
        ELSE [p |-> q, recs |-> r.recs]
\* the reader after the lines lo..hi, read in order (by halves)
RECURSIVE ReadLines(_, _, _, _)
ReadLines(r, content, lo, hi) ==
    IF lo > hi THEN r
    ELSE IF lo = hi THEN ReadLine(r, content, lo)
    ELSE LET q == ReadLines(r, content, lo, (lo + hi) \div 2)
         IN  IF q.p.state = "Error" THEN q ELSE ReadLines(q, content, (lo + hi) \div 2 + 1, hi)
\* at the end of the input a record that is still open is yielded as it is
AtEnd(r) ==
    IF r.p.field /= "" \/ r.p.state = "IN_QUOTED_FIELD"
    THEN Append(r.recs, Append(r.p.fields, r.p.field)) ELSE r.recs
csv_reader(content) ==
    AtEnd(ReadLines([p |-> Fresh, recs |-> <<>>], content, 1, Len(content.lines)))

(***************************************************************************)
(* A dict is the sequence of its entries in insertion order.  An entry of  *)
(* a DictReader row has the key k (a column name, None for the restkey),   *)
(* the value v (a cell, None for the restval) and rest, the list of the    *)
(* surplus cells under the restkey.                                        *)
(***************************************************************************)
Keys(d) == [i \in 1..Len(d) |-> d[i].k]
Has(d, k) == \E i \in 1..Len(d) : d[i].k = k
At(d, k) == d[CHOOSE i \in 1..Len(d) : d[i].k = k]
\* d[e.k] = e
Put(d, e) ==
    IF Has(d, e.k) THEN [i \in 1..Len(d) |-> IF d[i].k = e.k THEN e ELSE d[i]]
    ELSE Append(d, e)
Cell(k, v) == [k |-> Some(k), v |-> v, rest |-> <<>>]
Surplus(cells) == [k |-> None, v |-> None, rest |-> cells]
RECURSIVE Zip(_, _, _, _)
\* dict(zip(fieldnames, row)), then the restval under the fieldnames left over
Zip(fieldnames, row, j, d) ==
    IF j > Len(fieldnames) THEN d
    ELSE Zip(fieldnames, row, j + 1,
             Put(d, Cell(fieldnames[j], IF j <= Len(row) THEN Some(row[j]) ELSE None)))
DictRow(fieldnames, row) ==
    LET d == Zip(fieldnames, row, 1, <<>>)
    IN  IF Len(fieldnames) < Len(row)
        THEN Append(d, Surplus(SubSeq(row, Len(fieldnames) + 1, Len(row))))
        ELSE d
NotEmpty(row) == row /= <<>>
\* list(csv.DictReader(io.StringIO(content))): the first record is the
\* header, whatever it is; empty records after it are skipped
DictRows(fieldnames, data) == [i \in 1..Len(data) |-> DictRow(fieldnames, data[i])]
HeaderAndRows(recs) ==
    IF recs = <<>> THEN <<>> ELSE DictRows(Head(recs), SelectSeq(Tail(recs), NotEmpty))
DictReader(content) == HeaderAndRows(csv_reader(content))

(***************************************************************************)
(* Python floats: IEEE 754 binary64, round to nearest, ties to even.  A    *)
(* finite float is sig * 2^e, sig a natural number written in binary (most *)
(* significant bit first, <<>> for zero); the numbers of the model are not *)
(* negative and far from overflow and underflow.                           *)
(***************************************************************************)
Precision == 53
RECURSIVE Bin(_)
Bin(n) == IF n = 0 THEN <<>> ELSE Append(Bin(n \div 2), n % 2)
Zeros(n) == [i \in 1..n |-> 0]
Trim(b) ==
    IF \A i \in 1..Len(b) : b[i] = 0 THEN <<>>
    ELSE SubSeq(b, Min({i \in 1..Len(b) : b[i] = 1}), Len(b))
PadTo(b, n) == Zeros(n - Len(b)) \o b
\* -1, 0 or 1 as a < b, a = b or a > b
CmpBits(a, b) ==
    LET x == Trim(a)
        y == Trim(b)
    IN  IF Len(x) /= Len(y) THEN (IF Len(x) < Len(y) THEN -1 ELSE 1)
        ELSE IF x = y THEN 0
        ELSE IF x[Min({i \in 1..Len(x) : x[i] /= y[i]})] < y[Min({i \in 1..Len(x) : x[i] /= y[i]})]
             THEN -1 ELSE 1
\* a - b for a >= b of the same length: bit i borrows when the bits below it
\* are less in a than in b
Borrow(a, b, i) ==
    \E j \in (i + 1)..Len(a) : a[j] < b[j] /\ \A k \in (i + 1)..(j - 1) : a[k] = b[k]
SubBits(a, b) ==
    Trim([i \in 1..Len(a) |-> (a[i] - b[i] - (IF Borrow(a, b, i) THEN 1 ELSE 0) + 2) % 2])
\* a + 1
IncBits(a) ==
    IF \A i \in 1..Len(a) : a[i] = 1 THEN <<1>> \o Zeros(Len(a))
    ELSE [i \in 1..Len(a) |->
            IF i < Max({j \in 1..Len(a) : a[j] = 0}) THEN a[i]
            ELSE IF i = Max({j \in 1..Len(a) : a[j] = 0}) THEN 1 ELSE 0]

Finite(sig, e) == [kind |-> "finite", sig |-> sig, e |-> e]
Zero == Finite(<<>>, 0)
NaN == [kind |-> "nan", sig |-> <<>>, e |-> 0]
Inf == [kind |-> "inf", sig |-> <<>>, e |-> 0]
\* the float nearest to bits * 2^e (+ something below the last bit when sticky)
RoundBits(bits, e, sticky) ==
    LET n == Len(bits)
        keep == SubSeq(bits, 1, Precision)
        up == /\ bits[Precision + 1] = 1
              /\ \/ sticky
                 \/ \E i \in (Precision + 2)..n : bits[i] = 1
                 \/ bits[Precision] = 1
    IN  IF n <= Precision THEN Finite(bits, e)
        ELSE IF ~up THEN Finite(keep, e + n - Precision)
        ELSE IF Len(IncBits(keep)) > Precision
             THEN Finite(SubSeq(IncBits(keep), 1, Precision), e + n - Precision + 1)
        ELSE Finite(IncBits(keep), e + n - Precision)
\* sixteen more bits of the quotient: the division step on a remainder r < d < 2^14
Chunk == 16
ChunkBits(r, d) == PadTo(Bin((r * 2^Chunk) \div d), Chunk)
ChunkRem(r, d) == (r * 2^Chunk) % d
\* n / d for integers 0 <= n < 2^31 and 0 < d < 2^14, correctly rounded (also
\* the float of the decimal numeral n / 10^k): long division to eighty bits
\* after the point, of which at least sixty-six are significant
FDiv(n, d) ==
    LET r1 == ChunkRem(n % d, d)
        r2 == ChunkRem(r1, d)
        r3 == ChunkRem(r2, d)
        r4 == ChunkRem(r3, d)
    IN  IF n = 0 THEN Zero
        ELSE RoundBits(Trim(Bin(n \div d) \o ChunkBits(n % d, d) \o ChunkBits(r1, d)
                                \o ChunkBits(r2, d) \o ChunkBits(r3, d) \o ChunkBits(r4, d)),
                       -5 * Chunk, ChunkRem(r4, d) /= 0)
\* the two significands on the smaller of the two exponents
Aligned(x, y) ==
    LET e == IF x.e < y.e THEN x.e ELSE y.e
        a == x.sig \o Zeros(x.e - e)
        b == y.sig \o Zeros(y.e - e)
        n == IF Len(a) > Len(b) THEN Len(a) ELSE Len(b)
    IN  [a |-> PadTo(a, n), b |-> PadTo(b, n), e |-> e]
FCmp(x, y) == CmpBits(Aligned(x, y).a, Aligned(x, y).b)
\* abs(x - y)
FAbsDiff(x, y) ==
    IF x.kind = "nan" \/ y.kind = "nan" \/ (x.kind = "inf" /\ y.kind = "inf") THEN NaN
    ELSE IF x.kind = "inf" \/ y.kind = "inf" THEN Inf
    ELSE LET al == Aligned(x, y)
         IN  IF CmpBits(al.a, al.b) = 0 THEN Zero
             ELSE IF CmpBits(al.a, al.b) > 0 THEN RoundBits(SubBits(al.a, al.b), al.e, FALSE)
             ELSE RoundBits(SubBits(al.b, al.a), al.e, FALSE)
\* x > y
FGreater(x, y) ==
    IF x.kind = "nan" \/ y.kind = "nan" THEN FALSE
    ELSE IF x.kind = "inf" THEN y.kind /= "inf"
    ELSE IF y.kind = "inf" THEN FALSE
    ELSE FCmp(x, y) > 0
FAtLeast(x, y) ==
    IF x.kind = "nan" \/ y.kind = "nan" THEN FALSE
    ELSE IF x.kind = "inf" THEN TRUE
    ELSE IF y.kind = "inf" THEN FALSE
    ELSE FCmp(x, y) >= 0

RECURSIVE Pow10(_)
Pow10(k) == IF k = 0 THEN 1 ELSE 10 * Pow10(k - 1)
\* float(s) of a stripped string: digits with at most one point (no sign,
\* exponent or underscore in the model's cells), nan, inf, infinity in any
\* case; None for ValueError
PyFloat(s) ==
    LET n == Len(s)
        dots == {i \in 1..n : Chr(s, i) = "."}
        d == IF dots = {} THEN n + 1 ELSE Min(dots)
    IN  IF StrUpper(s) = "NAN" THEN Some(NaN)
        ELSE IF StrUpper(s) \in {"INF", "INFINITY"} THEN Some(Inf)
        ELSE IF ~AllChars(s, Digit \cup {"."}) \/ Cardinality(dots) > 1 \/ n - Cardinality(dots) = 0
        THEN None
        ELSE Some(FDiv(DigitsVal(SubSeq(s, 1, d - 1) \o SubSeq(s, d + 1, n)), Pow10(n - d + IF dots = {} THEN 1 ELSE 0)))

(***************************************************************************)
(* The str methods and helpers.is_valid_policy_number the loader calls.    *)
(***************************************************************************)
\* str.strip(): the whitespace of the model is the space and, in a quoted
\* cell, the line break
Whitespace == {" ", "\n"}
StripStr(s) ==
    IF \A i \in 1..Len(s) : Chr(s, i) \in Whitespace THEN ""
    ELSE SubSeq(s, Min({i \in 1..Len(s) : Chr(s, i) \notin Whitespace}),
                   Max({i \in 1..Len(s) : Chr(s, i) \notin Whitespace}))
\* str.lower()
RECURSIVE StrLower(_)
StrLower(s) == IF Len(s) = 0 THEN "" ELSE LowChar(Head(s)) \o StrLower(Tail(s))
\* str.isdigit()
IsDigits(s) == Len(s) >= 1 /\ AllChars(s, Digit)
is_valid_policy_number(policy) == policy /= "" /\ IsPolicyNo(StripStr(policy))

(***************************************************************************)
(* _mostly_in_first_column.  (r.get(k) or "").strip() raises               *)
(* AttributeError on the list under the restkey, when the evaluation of    *)
(* `bool(first) and all(rest)` gets that far.                              *)
(***************************************************************************)
SampleRows == 50
GetStripped(r, k) ==
    IF ~Has(r, k) THEN Some("")
    ELSE IF At(r, k).rest /= <<>> THEN Raise("AttributeError")
    ELSE IF At(r, k).v = None THEN Some("")
    ELSE Some(StripStr(Get(At(r, k).v)))
\* the keys after the first at which `all(...)` stops: a value that is not empty, or a raise
StopsAt(r, keys) == {j \in 2..Len(keys) : GetStripped(r, keys[j]) /= Some("")}
OnlyFirst(r, keys) ==
    IF IsRaise(GetStripped(r, keys[1])) THEN GetStripped(r, keys[1])
    ELSE IF GetStripped(r, keys[1]) = Some("") THEN Some(FALSE)
    ELSE IF StopsAt(r, keys) = {} THEN Some(TRUE)
    ELSE IF IsRaise(GetStripped(r, keys[Min(StopsAt(r, keys))])) THEN Raise("AttributeError")
    ELSE Some(FALSE)
Bad(rows, total) == Cardinality({i \in 1..total : OnlyFirst(rows[i], Keys(rows[1])) = Some(TRUE)})
_mostly_in_first_column(rows) ==
    IF rows = <<>> \/ Keys(rows[1]) = <<>> THEN Some(FALSE)
    ELSE IF \E i \in 1..Min({Len(rows), SampleRows}) : IsRaise(OnlyFirst(rows[i], Keys(rows[1])))
         THEN Raise("AttributeError")
    ELSE Some(Bad(rows, Min({Len(rows), SampleRows})) >= Min({Len(rows), SampleRows}) \div 2)

(***************************************************************************)
(* detect_policy_column: the candidates in order, each scored              *)
(* valid_count / total_count over the first hundred rows.                  *)
(***************************************************************************)
DetectRows == 100
IsPreferred(k) == \E i \in 1..Len(Preferred) : Preferred[i] = k
NotPreferred(k) == ~IsPreferred(k)
Candidates(rows) == Preferred \o SelectSeq(Keys(rows[1]), NotPreferred)
\* `value and isinstance(value, str)` for value = row.get(candidate, '')
Counted(row, k) == Has(row, k) /\ At(row, k).v /= None /\ At(row, k).v /= Some("")
Sampled(rows) == 1..Min({Len(rows), DetectRows})
total_count(rows, k) == Cardinality({i \in Sampled(rows) : Counted(rows[i], k)})
valid_count(rows, k) ==
    Cardinality({i \in Sampled(rows) : Counted(rows[i], k) /\ is_valid_policy_number(Get(At(rows[i], k).v))})
Score(rows, k) == FDiv(valid_count(rows, k), total_count(rows, k))
Threshold == FDiv(3, 10)
\* the loop over the candidates from the j-th on
RECURSIVE BestFrom(_, _, _, _, _)
BestFrom(rows, cands, j, best_score, best_column) ==
    IF j > Len(cands) THEN [score |-> best_score, column |-> best_column]
    ELSE IF Has(rows[1], cands[j]) /\ total_count(rows, cands[j]) > 0
            /\ FGreater(Score(rows, cands[j]), best_score)
         THEN BestFrom(rows, cands, j + 1, Score(rows, cands[j]), cands[j])
    ELSE BestFrom(rows, cands, j + 1, best_score, best_column)
\* the return with a fault: the score has to be above the threshold
Accepted_Above(best) == IF FGreater(best.score, Threshold) THEN best.column ELSE None
\* `if best_score >= 0.3: return best_column`, else None
Accepted(best) == IF FAtLeast(best.score, Threshold) THEN best.column ELSE None
detect_policy_column(rows) ==
    IF rows = <<>> THEN None
    ELSE Accepted(BestFrom(rows, Candidates(rows), 1, Zero, None))

(***************************************************************************)
(* clean_and_normalize_row_with_policy_column.  A cleaned row is a dict    *)
(* whose entries have a column name k and a value v, None for an empty     *)
(* cell.                                                                   *)
(***************************************************************************)
Field(k, v) == [k |-> k, v |-> v]
\* `key.strip() if key else None`: "" stands for a key that is not kept
CleanKey(k) == IF k = None THEN "" ELSE StripStr(Get(k))
CleanValue(v) == IF v = None \/ StripStr(Get(v)) = "" THEN None ELSE Some(StripStr(Get(v)))
RECURSIVE CleanFrom(_, _, _)
CleanFrom(row, j, cleaned_row) ==
    IF j > Len(row) THEN cleaned_row
    ELSE CleanFrom(row, j + 1,
                   IF CleanKey(row[j].k) = "" THEN cleaned_row
                   ELSE Put(cleaned_row, Field(CleanKey(row[j].k), CleanValue(row[j].v))))
\* cleaned_row.get(k)
Val(row, k) == IF Has(row, k) THEN At(row, k).v ELSE None
\* `if policy_column in cleaned_row: cleaned_row['Policy'] = cleaned_row[policy_column]`
WithPolicy(cleaned_row, policy_column) ==
    IF policy_column /= None /\ Has(cleaned_row, Get(policy_column))
    THEN Put(cleaned_row, Field("Policy", Val(cleaned_row, Get(policy_column))))
    ELSE cleaned_row
Truthy(v) == v /= None /\ StripStr(Get(v)) /= ""
\* the filter on a Policy that is not a policy number
Checked(cleaned_row) ==
    IF /\ Val(cleaned_row, "Policy") /= None
       /\ ~is_valid_policy_number(Get(Val(cleaned_row, "Policy")))
       /\ ~\E i \in 1..Len(cleaned_row) : Truthy(cleaned_row[i].v)
    THEN None
    ELSE Some(cleaned_row)
clean_and_normalize_row_with_policy_column(row, policy_column) ==
    Checked(WithPolicy(CleanFrom(row, 1, <<>>), policy_column))

(***************************************************************************)
(* parse_csv_robust.  The result carries the locals next to the rows       *)
(* returned: exc names the exception when the call raises.                 *)
(***************************************************************************)
Falsy(column) == column = None \/ column = Some("")
NumericCells(first_row) ==
    {j \in 1..Len(first_row) : first_row[j].v /= None /\ IsDigits(StripStr(Get(first_row[j].v)))}
\* the fallback: the first column with a numeric cell in the first row, else the first column
FallbackColumn(first_row) ==
    IF NumericCells(first_row) = {} \/ Falsy(first_row[Min(NumericCells(first_row))].k)
    THEN first_row[1].k
    ELSE first_row[Min(NumericCells(first_row))].k
Failed(exc, repaired) ==
    [exc |-> Some(exc), repaired |-> repaired, rows |-> <<>>, detected |-> None,
     policy_column |-> None, valid_rows |-> <<>>]
CleanedRows(rows, policy_column) ==
    [i \in 1..Len(rows) |-> clean_and_normalize_row_with_policy_column(rows[i], policy_column)]
Kept(cleaned) == [i \in 1..Len(SelectSeq(cleaned, IsSome)) |-> Get(SelectSeq(cleaned, IsSome)[i])]
Normalized(rows, repaired, detected, policy_column) ==
    [exc |-> None, repaired |-> repaired, rows |-> rows, detected |-> detected,
     policy_column |-> policy_column, valid_rows |-> Kept(CleanedRows(rows, policy_column))]
Detected(rows, repaired, detected) ==
    Normalized(rows, repaired, detected,
               IF Falsy(detected) THEN FallbackColumn(rows[1]) ELSE detected)
Parsed(rows, repaired) ==
    IF rows = <<>> THEN Failed("HTTPException", repaired)
    ELSE Detected(rows, repaired, detect_policy_column(rows))
FirstParsed(content, rows, mostly) ==
    IF rows /= <<>> /\ IsRaise(mostly) THEN Failed("AttributeError", FALSE)
    ELSE IF rows = <<>> \/ mostly = Some(TRUE)
         THEN Parsed(DictReader(normalize_csv_content(content)), TRUE)
    ELSE Parsed(rows, FALSE)
parse_csv_robust(content) ==
    FirstParsed(content, DictReader(content), _mostly_in_first_column(DictReader(content)))

(***************************************************************************)
(* The files of the calls.  A snapshot is written from a header and up to  *)
(* MaxDiffRows data lines; a priced snapshot is one policy with its Face   *)
(* amount in dollars and cents, the two files of a call at most MaxDelta   *)
(* cents apart.                                                            *)
(***************************************************************************)
MaxDiffRows == 2
MaxCents == 30
MaxDelta == 2
DiffHeader == "Policy,Status,Face"
OtherHeaders == {"Policy,Status", " Id ,Status,Face"}
DiffRows ==
    {"0108338110,Active,1.00", "0108338110, ACTIVE,1.00", "0108338110,Lapsed,1.02",
     "0108338111,Active,nan"}
\* a file with a row that has no Policy value, and a file that has one key
\* twice and no number as Face
Unkeyed == Text(<<DiffHeader, ",Lapsed,1.02">>, TRUE)
NonNumeric == Text(<<DiffHeader, "0108338111,Active,nan", "0108338111,Active,abc">>, TRUE)
Snapshots(n) ==
    {Text(<<>>, FALSE), Unkeyed, NonNumeric} \cup
    {Text(<<DiffHeader>> \o rows, TRUE) : rows \in {<<>>} \cup SeqsUpTo(DiffRows, n)} \cup
    {Text(<<h, row>>, TRUE) : h \in OtherHeaders, row \in DiffRows}
Amount(cents) == Chr(DigitAlpha, (cents \div 100) + 1) \o "." \o Pad(cents % 100, 2)
Priced(cents) == Text(<<"Policy,Face", "0108338110," \o Amount(cents)>>, TRUE)
\* parse_csv_robust on the files of the calls, evaluated once for each file
Parse ==
    [content \in Snapshots(MaxDiffRows) \cup {Priced(cents) : cents \in 0..MaxCents + MaxDelta} |->
        parse_csv_robust(content)]

(***************************************************************************)
(* compare_files_as_json_sync.  old is the text fetched from the old       *)
(* file's URL, None when the URL is missing or the request raises.  The    *)
(* result is a dict: either error alone, or comparison_summary and         *)
(* changes.  added_ids and common_ids are sets, and the lists built from   *)
(* them come in the order the set iterates, which the caller fixes here    *)
(* by added_order and modified_order.                                      *)
(***************************************************************************)
CSV_COMPARISON_FIELDS ==
    <<"WritingAgent", "AgentName", "Company", "Status", "DOB", "PolicyDate", "PaidtoDate",
      "RecvDate", "LastName", "FirstName", "MI", "Plan", "Face", "Form", "Mode", "ModePrem",
      "Address1", "Address2", "Address3", "Address4", "State", "Zip", "Phone", "Email",
      "App Date", "WrtPct">>
NUMERIC_FIELDS == {"Face", "ModePrem", "WrtPct"}
Tolerance == FDiv(1, 100)
\* the normal form with a fault: the letter case is kept
Norm_CaseKept(row, field) ==
    IF Val(row, field) = None THEN "" ELSE StripStr(Get(Val(row, field)))
\* `str(value).strip().lower() if value is not None else ''` of row.get(field, '')
Norm(row, field) ==
    IF Val(row, field) = None THEN "" ELSE StrLower(StripStr(Get(Val(row, field))))
\* float(norm.replace(',', '')) on the values the files of the calls have in
\* the numeric fields, evaluated once for each value
Float ==
    [norm \in UNION {{Norm(Parse[content].valid_rows[i], field) :
                        i \in 1..Len(Parse[content].valid_rows), field \in NUMERIC_FIELDS} :
                     content \in DOMAIN Parse} |->
        PyFloat(StripCommas(norm))]
\* `float(norm.replace(',', '')) if norm else 0`
Num(norm) == IF norm = "" THEN Some(Zero) ELSE Float[norm]
\* the numeric branch with a fault: a value that is not a number counts as a change
NumericDiffers_Unparsed(old_norm, new_norm) ==
    IF Num(old_norm) = None \/ Num(new_norm) = None THEN TRUE
    ELSE FGreater(FAbsDiff(Get(Num(old_norm)), Get(Num(new_norm))), Tolerance)
\* the numeric branch: ValueError falls back on the comparison of the strings
NumericDiffers(old_norm, new_norm) ==
    IF Num(old_norm) = None \/ Num(new_norm) = None THEN old_norm /= new_norm
    ELSE FGreater(FAbsDiff(Get(Num(old_norm)), Get(Num(new_norm))), Tolerance)
FieldDiffers(old_row, new_row, field) ==
    IF field \in NUMERIC_FIELDS THEN NumericDiffers(Norm(old_row, field), Norm(new_row, field))
    ELSE Norm(old_row, field) /= Norm(new_row, field)
has_changes(old_row, new_row) ==
    \E i \in 1..Len(CSV_COMPARISON_FIELDS) : FieldDiffers(old_row, new_row, CSV_COMPARISON_FIELDS[i])

\* `row and row.get('Policy')`
Keyed(row) == row /= <<>> /\ Val(row, "Policy") /= None /\ Val(row, "Policy") /= Some("")
KeysOf(list) == {Get(Val(list[i], "Policy")) : i \in {j \in 1..Len(list) : Keyed(list[j])}}
\* {row['Policy']: row for row in list if ...}: the last row of a key stays
MapOf(list) ==
    [pid \in KeysOf(list) |->
        list[Max({i \in 1..Len(list) : Keyed(list[i]) /\ Val(list[i], "Policy") = Some(pid)})]]
\* the added_ids with a fault: every key of the new file counts as added
added_ids_AllNew(map_new, map_old) == DOMAIN map_new
added_ids(map_new, map_old) == DOMAIN map_new \ DOMAIN map_old
common_ids(map_new, map_old) == DOMAIN map_new \cap DOMAIN map_old
modified_ids(map_new, map_old) ==
    {pid \in common_ids(map_new, map_old) : has_changes(map_old[pid], map_new[pid])}
Orders(S) == {q \in [1..Cardinality(S) -> S] : \A i, j \in 1..Cardinality(S) : i /= j => q[i] /= q[j]}

ErrorResult(msg) == [error |-> msg]
Complete(added_policies, modified_policies) ==
    [comparison_summary |->
        [new_file |-> "new.csv", old_file |-> "old.csv",
         total_changes |-> Len(added_policies \o modified_policies),
         new_records |-> Len(added_policies),
         modified_records |-> Len(modified_policies)],
     changes |-> added_policies \o modified_policies]
Diffed(map_new, map_old, added_order, modified_order) ==
    Complete([i \in 1..Len(added_order) |-> map_new[added_order[i]]],
             [i \in 1..Len(modified_order) |-> map_new[modified_order[i]]])
\* the comparison with a fault: the old file is not asked for its Policy column
Compared_OldUnchecked(list_new, list_old) ==
    IF list_new = <<>> \/ ~Has(list_new[1], "Policy")
    THEN {ErrorResult("'Policy' column not found in the new file.")}
    ELSE {Diffed(MapOf(list_new), MapOf(list_old), a, m) :
            a \in Orders(added_ids(MapOf(list_new), MapOf(list_old))),
            m \in Orders(modified_ids(MapOf(list_new), MapOf(list_old)))}
\* the results of the call, one for each order of the two sets
Compared(list_new, list_old) ==
    IF list_new = <<>> \/ ~Has(list_new[1], "Policy")
    THEN {ErrorResult("'Policy' column not found in the new file.")}
    ELSE IF list_old = <<>> \/ ~Has(list_old[1], "Policy")
    THEN {ErrorResult("'Policy' column not found in the old file.")}
    ELSE {Diffed(MapOf(list_new), MapOf(list_old), a, m) :
            a \in Orders(added_ids(MapOf(list_new), MapOf(list_old))),
            m \in Orders(modified_ids(MapOf(list_new), MapOf(list_old)))}
Loaded(new, old) ==
    IF new.exc /= None
    THEN {ErrorResult("Error during JSON data comparison: " \o Get(new.exc))}
    ELSE IF old.exc /= None
    THEN {ErrorResult("Error during JSON data comparison: " \o Get(old.exc))}
    ELSE Compared(new.valid_rows, old.valid_rows)
compare_files_as_json_sync(new_content_str, old) ==
    IF old = None THEN {ErrorResult("Error during JSON data comparison: fetch")}
    ELSE Loaded(Parse[new_content_str], Parse[Get(old)])

(***************************************************************************)
(* Calls of compare_files_as_json_sync.  The old snapshot may be the new   *)
(* one again, and the fetch of the old one may fail.                       *)
(***************************************************************************)
InitCompare ==
    /\ call = "compare_files_as_json_sync" /\ pc = "call"
    /\ arg \in [new : Snapshots(MaxDiffRows), old : {None} \cup {Some(c) : c \in Snapshots(MaxDiffRows)}]
    /\ ret = None
    /\ Locals
CompareCall ==
    /\ call = "compare_files_as_json_sync" /\ pc = "call"
    /\ ret' \in compare_files_as_json_sync(arg.new, arg.old)
    /\ pc' = "returned"
    /\ UNCHANGED <<call, text, arg, reportVars, returnsVars, serviceVars>>
SpecDiff == InitCompare /\ [][CompareCall]_vars


(***************************************************************************)
(* The diff of two loaded snapshots.  A snapshot keyed by Policy has one   *)
(* row for each key, the last row of the file that carries it.             *)
(***************************************************************************)
Compares == call = "compare_files_as_json_sync" /\ pc = "returned"
IsComplete(result) == DOMAIN result = {"comparison_summary", "changes"}
IsErrorOnly(result) == DOMAIN result = {"error"}
NewRows == Parse[arg.new].valid_rows
OldRows == Parse[Get(arg.old)].valid_rows
PolicyOf(row) == Get(Val(row, "Policy"))
PolicyKeys(rows) ==
    {PolicyOf(rows[i]) : i \in {j \in 1..Len(rows) : Val(rows[j], "Policy") \notin {None, Some("")}}}
RowOf(rows, key) == rows[Max({i \in 1..Len(rows) : Val(rows[i], "Policy") = Some(key)})]
AddedRecords == SubSeq(ret.changes, 1, ret.comparison_summary.new_records)
ModifiedRecords == SubSeq(ret.changes, ret.comparison_summary.new_records + 1, Len(ret.changes))
AddedKeys == {PolicyOf(r) : r \in Range(AddedRecords)}
ModifiedKeys == {PolicyOf(r) : r \in Range(ModifiedRecords)}
CommonKeys == PolicyKeys(NewRows) \cap PolicyKeys(OldRows)

\* C11: in a complete result of compare_files_as_json_sync the added records
\* are exactly the rows of the new snapshot whose Policy key the old snapshot
\* does not have, one record for each such key; no key of both snapshots is
\* among the added records; a key of both snapshots whose two rows show no
\* detected field difference is neither added nor modified; and no key is
\* both added and modified.
C11_AddedAreTheNewKeys ==
    Compares /\ IsComplete(ret) =>
        /\ AddedKeys = PolicyKeys(NewRows) \ PolicyKeys(OldRows)
        /\ Len(AddedRecords) = Cardinality(AddedKeys)
        /\ \A i \in 1..Len(AddedRecords) :
                AddedRecords[i] = RowOf(NewRows, PolicyOf(AddedRecords[i]))
        /\ AddedKeys \cap CommonKeys = {}
        /\ \A key \in CommonKeys :
                ~has_changes(RowOf(OldRows, key), RowOf(NewRows, key)) =>
                    key \notin AddedKeys \cup ModifiedKeys
        /\ AddedKeys \cap ModifiedKeys = {}
\* a new key is added beside a key of both snapshots whose rows do not differ
C11_Witness ==
    /\ Compares /\ IsComplete(ret)
    /\ AddedKeys = {"0108338111"}
    /\ CommonKeys = {"0108338110"}
    /\ ~has_changes(RowOf(OldRows, "0108338110"), RowOf(NewRows, "0108338110"))
    /\ Len(OldRows) = 2


\* the two values of a field differ as strings: trimmed, letter case set
\* aside, a field that is absent or empty read as the empty string
TextOf(row, field) == IF Val(row, field) = None THEN "" ELSE StrUpper(StripStr(Get(Val(row, field))))
TextDiffers(old_row, new_row, field) == TextOf(old_row, field) /= TextOf(new_row, field)
\* some field of the list differs: a numeric one by the numeric comparison
\* of the call, any other as a string
Differ(old_row, new_row) ==
    \/ \E field \in Range(CSV_COMPARISON_FIELDS) \ NUMERIC_FIELDS : TextDiffers(old_row, new_row, field)
    \/ \E field \in NUMERIC_FIELDS :
            NumericDiffers(Norm(old_row, field), Norm(new_row, field))

\* C12: in a complete result of compare_files_as_json_sync a key of both
\* snapshots is among the modified records if and only if some field of
\* CSV_COMPARISON_FIELDS differs between its old and its new row, the fields
\* outside NUMERIC_FIELDS compared as trimmed strings without regard to
\* letter case and with absent read as empty; the record emitted for a
\* modified key is the row of the new snapshot; and total_changes =
\* new_records + modified_records = the number of records in changes.
C12_ModifiedIffAFieldDiffers ==
    Compares /\ IsComplete(ret) =>
        /\ \A key \in CommonKeys :
                key \in ModifiedKeys <=> Differ(RowOf(OldRows, key), RowOf(NewRows, key))
        /\ ModifiedKeys \subseteq CommonKeys
        /\ Len(ModifiedRecords) = Cardinality(ModifiedKeys)
        /\ \A i \in 1..Len(ModifiedRecords) :
                ModifiedRecords[i] = RowOf(NewRows, PolicyOf(ModifiedRecords[i]))
        /\ ret.comparison_summary.total_changes =
                ret.comparison_summary.new_records + ret.comparison_summary.modified_records
        /\ ret.comparison_summary.total_changes = Len(ret.changes)
\* a key is modified by its Status, the record emitted carries the new
\* Status, and a new key is added beside it
C12_Witness ==
    /\ Compares /\ IsComplete(ret)
    /\ ModifiedKeys = {"0108338110"}
    /\ Val(RowOf(OldRows, "0108338110"), "Status") = Some("Active")
    /\ Val(ModifiedRecords[1], "Status") = Some("Lapsed")
    /\ ModifiedRecords[1] /= RowOf(OldRows, "0108338110")
    /\ ret.comparison_summary.total_changes = 2


\* the snapshot loads and its first row has the Policy field
Loads(content) ==
    /\ Parse[content].exc = None
    /\ Parse[content].valid_rows /= <<>>
    /\ Has(Parse[content].valid_rows[1], "Policy")
\* C13: when compare_files_as_json_sync is given the same content as the new
\* and as the old snapshot, and the content loads, the result is complete
\* with no added and no modified record, whatever keys the content repeats
\* and whatever text it has in its numeric fields.
C13_SelfCompareIsEmpty ==
    Compares /\ arg.old = Some(arg.new) /\ Loads(arg.new) =>
        /\ IsComplete(ret)
        /\ ret.changes = <<>>
        /\ ret.comparison_summary.new_records = 0
        /\ ret.comparison_summary.modified_records = 0
        /\ ret.comparison_summary.total_changes = 0
\* a snapshot that has one key twice, with nan and with abc as its Face, is
\* compared with itself
C13_Witness ==
    /\ Compares /\ arg.old = Some(arg.new) /\ Loads(arg.new)
    /\ Len(NewRows) = 2
    /\ PolicyKeys(NewRows) = {"0108338111"}
    /\ Val(NewRows[1], "Face") = Some("nan") /\ Val(NewRows[2], "Face") = Some("abc")
    /\ IsComplete(ret) /\ ret.changes = <<>>


\* no row is parsed from the content, as it is or repaired
NoRows(content) ==
    DictReader(content) = <<>> /\ DictReader(normalize_csv_content(content)) = <<>>
\* C15: parse_csv_robust raises and returns no rows when no row can be parsed
\* even after the repair; compare_files_as_json_sync returns either error
\* alone or comparison_summary with changes, the changes being all the added
\* and all the modified records; and it returns error alone whenever the old
\* file cannot be fetched or one of the snapshots does not load or has no
\* Policy field in its first row.
C15_ErrorOrCompleteResult ==
    Compares =>
        /\ NoRows(arg.new) =>
                /\ Parse[arg.new].exc = Some("HTTPException")
                /\ Parse[arg.new].valid_rows = <<>>
                /\ IsErrorOnly(ret)
        /\ IsErrorOnly(ret) \/ IsComplete(ret)
        /\ IsErrorOnly(ret) <=> (arg.old = None \/ ~Loads(arg.new) \/ ~Loads(Get(arg.old)))
        /\ IsComplete(ret) =>
                Len(ret.changes) =
                    Cardinality(PolicyKeys(NewRows) \ PolicyKeys(OldRows))
                    + Cardinality({key \in CommonKeys :
                                        has_changes(RowOf(OldRows, key), RowOf(NewRows, key))})
\* the new snapshot loads, the old one has a header whose first row gets no
\* Policy field, and the result is the error alone
C15_Witness ==
    /\ Compares
    /\ Loads(arg.new) /\ Len(NewRows) = 2
    /\ arg.old /= None /\ Parse[Get(arg.old)].exc = None /\ ~Loads(Get(arg.old))
    /\ ret = ErrorResult("'Policy' column not found in the old file.")


(***************************************************************************)
(* Calls of compare_files_as_json_sync on priced snapshots: one policy     *)
(* whose Face is new cents in the new file and old cents in the old one.   *)
(***************************************************************************)
Cents(new, old) == [new |-> Priced(new), old |-> Some(Priced(old))]
InitTolerance ==
    /\ call = "compare_files_as_json_sync" /\ pc = "call"
    /\ \E new \in 0..MaxCents, delta \in -MaxDelta..MaxDelta :
            new + delta >= 0 /\ arg = Cents(new, new + delta)
    /\ ret = None
    /\ Locals
SpecTolerance == InitTolerance /\ [][CompareCall]_vars

Flagged == ret.comparison_summary.modified_records = 1
\* the cents of the amount d.cc
CentsOf(amount) == DigitsVal(SubSeq(amount, 1, 1)) * 100 + DigitsVal(SubSeq(amount, 3, 4))
NewCents == CentsOf(Get(Val(NewRows[1], "Face")))
OldCents == CentsOf(Get(Val(OldRows[1], "Face")))
\* C14: Face is compared as a decimal amount and a difference is flagged
\* only when the two amounts are more than 0.01 apart: a change of exactly
\* 0.01 is not flagged, and a change of 0.02 is.
C14_FlaggedIffMoreThanACent ==
    Compares /\ IsComplete(ret) =>
        (Flagged <=> (NewCents - OldCents > 1 \/ OldCents - NewCents > 1))


(***************************************************************************)
(* Calls of parse_csv_robust.  The files have a header and up to           *)
(* MaxLoadRows data lines; a file is written as it is or with every line   *)
(* wrapped in quotes.                                                      *)
(***************************************************************************)
MaxLoadRows == 3
LoadHeaders == {"Policy,Face", " Id ,Face", "Name,Ref"}
LoadRows == {"0108338110,1.00", "ABC,", ",", "Smith,0108338110", "77,x"}
Wrapped(lines) == [i \in 1..Len(lines) |-> Wrap(lines[i])]
\* a file whose cells are quoted one by one, as a CSV writer quotes them
QuotedCells == Text(<<"\"Policy\",\"Face\"", "\"0108338110\",\"1.00\"">>, TRUE)
LoadFiles(n) ==
    {Text(<<>>, FALSE), QuotedCells} \cup
    UNION {{Text(<<h>> \o rows, TRUE), Text(Wrapped(<<h>> \o rows), TRUE)} :
            h \in LoadHeaders, rows \in {<<>>} \cup SeqsUpTo(LoadRows, n)}
InitLoad ==
    /\ call = "parse_csv_robust" /\ pc = "call"
    /\ arg \in LoadFiles(MaxLoadRows)
    /\ ret = None
    /\ Locals
LoadCall ==
    /\ call = "parse_csv_robust" /\ pc = "call"
    /\ ret' = parse_csv_robust(arg)
    /\ pc' = "returned"
    /\ UNCHANGED <<call, text, arg, reportVars, returnsVars, serviceVars>>
SpecLoad == InitLoad /\ [][LoadCall]_vars

LoadReturns == call = "parse_csv_robust" /\ pc = "returned"
\* the rows of the first parse, and those of them, among the first
\* SampleRows, whose first column is not empty and whose other columns are
FirstRows == DictReader(arg)
EmptyCell(cell) == cell.v = None \/ StripStr(Get(cell.v)) = ""
FirstOnly(row) == ~EmptyCell(row[1]) /\ \A j \in 2..Len(row) : EmptyCell(row[j])
Shaped(rows) == {i \in 1..Min({Len(rows), SampleRows}) : FirstOnly(rows[i])}
\* C16: when the first parse yields at least one row, parse_csv_robust
\* repairs and re-parses the content if and only if at least half of the
\* sampled rows have the first column not empty and every other column empty.
C16_RepairOnlyWhenHalf ==
    LoadReturns /\ FirstRows /= <<>> =>
        (ret.repaired <=> 2 * Cardinality(Shaped(FirstRows)) >= Min({Len(FirstRows), SampleRows}))

\* the cell of the row in the column, trimmed, None when it is empty
Trimmed(row, column) == CleanValue(At(row, column).v)
\* C19: every row returned by parse_csv_robust has a Policy field whose value
\* is the trimmed value the row has in the column selected as the policy
\* column, and still has that column, under its trimmed name, with the same
\* value.
C19_PolicyFieldSynthesized ==
    LoadReturns /\ ret.exc = None =>
        /\ Len(ret.valid_rows) = Len(ret.rows)
        /\ \A i \in 1..Len(ret.valid_rows) :
                /\ Has(ret.valid_rows[i], "Policy")
                /\ Val(ret.valid_rows[i], "Policy") = Trimmed(ret.rows[i], ret.policy_column)
                /\ Has(ret.valid_rows[i], StripStr(Get(ret.policy_column)))
                /\ Val(ret.valid_rows[i], StripStr(Get(ret.policy_column)))
                        = Trimmed(ret.rows[i], ret.policy_column)

\* C20: no row returned by parse_csv_robust has all of its values absent,
\* and every parsed row with a field that is not empty is returned.
C20_NoEmptyRowReturned ==
    LoadReturns /\ ret.exc = None =>
        /\ \A i \in 1..Len(ret.valid_rows) :
                \E j \in 1..Len(ret.valid_rows[i]) : ret.valid_rows[i][j].v /= None
        /\ Len(ret.valid_rows) = Cardinality({i \in 1..Len(ret.rows) : \E j \in 1..Len(ret.rows[i]) : ~EmptyCell(ret.rows[i][j])})


(***************************************************************************)
(* Calls of parse_csv_robust on files of two columns.  A column is filled  *)
(* from the top: v policy numbers, then other text down to row t, then     *)
(* empty cells, and policy numbers again after row DetectRows when late.   *)
(***************************************************************************)
SmallRows == 10
ExtraRows == 5
DetectHeaders == {<<"Ref", "Acct">>, <<"Ref", "Policy">>, <<"Policy", "Ref">>}
Fill(v, t, late) == [v |-> v, t |-> t, late |-> late]
SmallFills == {Fill(0, 0, FALSE)} \cup {Fill(v, SmallRows, FALSE) : v \in {0, 2, 3, 4}}
LargeFills == {Fill(v, DetectRows, late) : v \in {29, 30}, late \in BOOLEAN}
FillCell(fill, i) ==
    IF i <= fill.v \/ (fill.late /\ i > DetectRows) THEN "0108338110"
    ELSE IF i <= fill.t THEN "X1"
    ELSE ""
TwoColumns(header, fill1, fill2, n) ==
    Text(<<header[1] \o "," \o header[2]>>
            \o [i \in 1..n |-> FillCell(fill1, i) \o "," \o FillCell(fill2, i)], TRUE)
DetectFiles ==
    {TwoColumns(h, f1, f2, SmallRows) : h \in DetectHeaders, f1 \in SmallFills, f2 \in SmallFills}
    \cup {TwoColumns(h, f1, f2, DetectRows + ExtraRows) :
            h \in DetectHeaders, f1 \in LargeFills, f2 \in {Fill(0, 0, FALSE), Fill(29, DetectRows, FALSE)}}
InitDetect ==
    /\ call = "parse_csv_robust" /\ pc = "call"
    /\ arg \in DetectFiles
    /\ ret = None
    /\ Locals
SpecDetect == InitDetect /\ [][LoadCall]_vars

\* the values of the column that are not empty, and those of them that look
\* like policy numbers, among the first DetectRows rows
Filled(rows, column) ==
    {i \in 1..Min({Len(rows), DetectRows}) : At(rows[i], column).v \notin {None, Some("")}}
Valid(rows, column) ==
    {i \in Filled(rows, column) : is_valid_policy_number(Get(At(rows[i], column).v))}
\* the columns of the file in candidate order: the preferred names, then the
\* other columns as the header has them
Present(rows) == SelectSeq(Candidates(rows), LAMBDA k : Has(rows[1], k))
\* the score of the column at a is higher than that of the column at b
Higher(rows, a, b) ==
    Cardinality(Valid(rows, a)) * Cardinality(Filled(rows, b))
        > Cardinality(Valid(rows, b)) * Cardinality(Filled(rows, a))
\* the a-th present column scores highest, and is the earliest of those that
\* do; a column without values has no score
Highest(rows, a) ==
    /\ Cardinality(Valid(rows, Present(rows)[a])) > 0
    /\ \A b \in {c \in 1..Len(Present(rows)) : Filled(rows, Present(rows)[c]) /= {}} :
            /\ b < a => Higher(rows, Present(rows)[a], Present(rows)[b])
            /\ b > a => ~Higher(rows, Present(rows)[b], Present(rows)[a])
AtLeast30Percent(rows, column) ==
    10 * Cardinality(Valid(rows, column)) >= 3 * Cardinality(Filled(rows, column))
\* the columns of the first row whose cell is all digits
DigitColumns(row) == {j \in 1..Len(row) : row[j].v /= None /\ IsDigits(StripStr(Get(row[j].v)))}

\* C18: the column detected is the candidate with the highest score
\* valid/total over the non-empty values of the first DetectRows rows, the
\* earliest in candidate order among equals, if and only if that score is at
\* least 30%; otherwise none is detected and the loader takes the first
\* column with a numeric cell in the first row, or else the first column.
C18_DetectedIffBestAtLeast30 ==
    LoadReturns /\ ret.exc = None =>
        /\ \A a \in 1..Len(Present(ret.rows)) :
                ret.detected = Present(ret.rows)[a]
                    <=> Highest(ret.rows, a) /\ AtLeast30Percent(ret.rows, Present(ret.rows)[a])
        /\ ret.detected /= None => ret.policy_column = ret.detected
        /\ ret.detected = None =>
                ret.policy_column =
                    IF DigitColumns(ret.rows[1]) = {} THEN ret.rows[1][1].k
                    ELSE ret.rows[1][Min(DigitColumns(ret.rows[1]))].k
\* the column Ref has exactly 30 policy numbers among 100 values, with more
\* of them after row DetectRows, and is detected
C18_Witness ==
    /\ LoadReturns /\ ret.exc = None
    /\ Len(ret.rows) = DetectRows + ExtraRows
    /\ Cardinality(Valid(ret.rows, Some("Ref"))) = 30
    /\ Cardinality(Filled(ret.rows, Some("Ref"))) = 100
    /\ ret.detected = Some("Ref")


(***************************************************************************)
(* helpers.date_to_iso called on its own: the date is parsed, its          *)
(* canonical form is written again as month/day/year (the year keeps its   *)
(* four digits) and parsed again.                                          *)
(***************************************************************************)
DateMonths == {"1", "01", "2", "02", "12", "13", "0", "4"}
DateDays == {"1", "01", " 1", "28", "29", "30", "31", "32", "0", "00"}
DateYears == {"00", "68", "69", "99", "24", "1900", "2000", "1968", "2069", "0099",
              "0000", "9999", "1", "069"}
DatePads == {"", " "}
ReformatStyles == {"padded", "bare"}
Unpadded(s) == IF Chr(s, 1) = "0" THEN Tail(s) ELSE s
\* YYYY-MM-DD written as MM/DD/YYYY, or as M/D/YYYY without the leading zeros
Reformat(iso, style) ==
    LET f == Fields(iso, "-")
    IN  IF style = "padded" THEN f[2] \o "/" \o f[3] \o "/" \o f[1]
        ELSE Unpadded(f[2]) \o "/" \o Unpadded(f[3]) \o "/" \o f[1]

InitDate ==
    /\ call = "date_to_iso" /\ pc = "call"
    /\ \E m \in DateMonths, d \in DateDays, y \in DateYears, l \in DatePads, r \in DatePads :
          arg = l \o m \o "/" \o d \o "/" \o y \o r
    /\ ret = None
    /\ Locals
DateCall ==
    /\ call = "date_to_iso" /\ pc = "call"
    /\ ret' = date_to_iso(arg)
    /\ pc' = "returned"
    /\ UNCHANGED <<call, text, arg, reportVars, returnsVars, serviceVars>>
\* the canonical date is kept in text and its re-formatting is the next input
ReformatCall ==
    /\ call = "date_to_iso" /\ pc = "returned" /\ IsSome(ret)
    /\ \E style \in ReformatStyles : arg' = Reformat(Get(ret), style)
    /\ text' = <<Get(ret)>>
    /\ ret' = None
    /\ pc' = "call"
    /\ UNCHANGED <<call, reportVars, returnsVars, serviceVars>>
SpecDate == InitDate /\ [][DateCall \/ ReformatCall]_vars

\* s is YYYY-MM-DD and names a day of the calendar
IsCanonicalDate(s) ==
    LET f == Fields(s, "-")
    IN  /\ Len(s) = 10 /\ Len(f) = 3
        /\ IsNumber(f[1], {4}) /\ IsNumber(f[2], {2}) /\ IsNumber(f[3], {2})
        /\ DigitsVal(f[1]) >= 1 /\ DigitsVal(f[2]) \in 1..12
        /\ DigitsVal(f[3]) \in 1..DaysIn(DigitsVal(f[1]), DigitsVal(f[2]))
\* the year field of the input, and the year a two-digit field stands for
YearField(raw) == Fields(StripRaw(raw), "/")[3]
Century(yy) == IF yy <= 68 THEN 2000 + yy ELSE 1900 + yy

\* C22: date_to_iso returns nothing or a calendar date written YYYY-MM-DD; a
\* two-digit year is read first (00..68 as 20xx, 69..99 as 19xx), a four-digit
\* year otherwise; and the canonical date, written again as month/day/year
\* and parsed again, comes back unchanged.
C22_DateRoundTrip ==
    call = "date_to_iso" /\ pc = "returned" =>
        /\ IsSome(ret) => IsCanonicalDate(Get(ret))
        /\ IsSome(ret) =>
              DigitsVal(SubSeq(Get(ret), 1, 4)) =
                  IF Len(YearField(arg)) = 2 THEN Century(DigitsVal(YearField(arg)))
                  ELSE DigitsVal(YearField(arg))
        /\ text /= <<>> => ret = Some(text[1])
C22_Witness ==
    /\ call = "date_to_iso" /\ pc = "returned"
    /\ text = <<"1969-02-01">> /\ arg = "2/1/1969" /\ ret = Some("1969-02-01")

\* the fields of `re.split(r"\s{2,}", line.strip())` on the line of the call
FieldCount == Len(SplitWide(Lex(arg)))

\* C23: the column split of a policy-activity line succeeds only on exactly
\* six fields, that of a requirement line only on exactly five; a line of
\* more fields is rejected.
C23_ExactFieldCount ==
    call = "strategies" /\ pc = "returned" =>
        /\ IsSome(ret.columns) => FieldCount = 6
        /\ IsSome(ret.uw_columns) => FieldCount = 5

\* every token of line j is made of the characters of the name class, which
\* holds the characters of the policy, plan, premium and agent-id classes too
InNameClassThroughout(j) == AllName(Lex(text[j]), 1, Len(text[j]))

\* C24: a policy-activity record comes from a line whose fields, names
\* included, are all within the character classes of the strict pattern.
C24_RecordsWithinClasses ==
    call = "parse_report" =>
        \A i \in Records :
            IsNone(out[i].requirement_desc) => InNameClassThroughout(out_src[i])

\* the positions of the tokens of the line of the call that are 6 or 7 digits
AgentIdTokens == {i \in 1..Len(arg) : P_agent_id(Lex(arg)[i])}
\* the slots the claim describes around the rightmost of them, k
TokenSlots(k) ==
    LET l == Lex(arg)
    IN  [premium |-> k - 1, plan |-> k - 2,
         name |-> SubSeq(l, 2, k - 3), agent |-> SubSeq(l, k + 1, Len(l))]
SlotsFilled(k) ==
    LET l == Lex(arg)
        s == TokenSlots(k)
    IN  /\ s.plan >= 2 /\ P_premium(l[s.premium]) /\ P_plan(l[s.plan])
        /\ s.name /= <<>> /\ s.agent /= <<>>

\* C25: on a line that starts with a policy number the token split takes the
\* rightmost 6-or-7-digit token as agent id, the token before it as premium,
\* the one before that as plan, the tokens between policy number and plan as
\* insured name and the tokens after the agent id as agent name; it returns
\* nothing when there is no such token, when premium or plan has not its
\* shape, or when a name slot is empty.
C25_TokensAroundRightmostId ==
    call = "strategies" /\ pc = "returned" =>
        IF AgentIdTokens /= {} /\ SlotsFilled(Max(AgentIdTokens))
        THEN LET l == Lex(arg)
                 k == Max(AgentIdTokens)
                 s == TokenSlots(k)
             IN  /\ IsSome(ret.tokens)
                 /\ Get(ret.tokens).policy_no = l[1].t
                 /\ Get(ret.tokens).agent_id = l[k].t
                 /\ Get(ret.tokens).annual_premium = l[s.premium].f.float
                 /\ Get(ret.tokens).plan = Some(l[s.plan].t)
                 /\ Get(ret.tokens).insured_name = Title(Joined(s.name))
                 /\ Get(ret.tokens).writing_agent = Title(Joined(s.agent))
        ELSE ret.tokens = None
\* two agent-id tokens on the line, the split succeeded around the right one
C25_Witness ==
    /\ call = "strategies" /\ pc = "returned"
    /\ Cardinality(AgentIdTokens) >= 2
    /\ IsSome(ret.tokens)
    /\ Get(ret.tokens).agent_id = arg[Max(AgentIdTokens)].t
    /\ Get(ret.tokens).agent_id /= arg[Min(AgentIdTokens)].t

(***************************************************************************)
(* One iteration of the loop of parse_return_items on a line of its own:   *)
(* no section, no page context.                                            *)
(***************************************************************************)
MaxItemTokens == 9
ItemAlphabet == {"JOHN", "05", "08/22/2025"}
ItemStarts == {<<"110", "0107680260">>, <<"1234", "0107680260">>}
InitItem ==
    /\ call = "item" /\ pc = "call"
    /\ \E head \in ItemStarts, toks \in SeqsUpTo(ItemAlphabet, MaxItemTokens) :
          arg = Spaced(head \o toks, 1)
    /\ ret = None
    /\ Locals
ItemCall ==
    /\ call = "item" /\ pc = "call"
    /\ ret' = ReturnsLoopBody(Lex(arg), None, NoContext, NoContext)
    /\ pc' = "returned"
    /\ UNCHANGED <<call, text, arg, reportVars, returnsVars, serviceVars>>
SpecItem == InitItem /\ [][ItemCall]_vars

\* the tokens behind company code and policy number, and the places where a
\* two-digit token stands in front of a token of the date pattern
RestTokens == SubSeq(Lex(arg), 3, Len(arg))
Boundaries ==
    {i \in 1..(Len(RestTokens) - 1) : IsBillDay(RestTokens[i].t) /\ IsDateShape(RestTokens[i + 1].t)}
Anchored == Len(arg) >= 3 /\ IsCompanyCode(arg[1].t) /\ IsPolicy10(arg[2].t)

\* C26: a line yields an item exactly when it has the anchor, eight or more
\* tokens behind it and a (two digits, date pattern) pair among them; the
\* leftmost pair is the boundary: the tokens in front of it are the insured
\* name and the tokens behind it are taken by position.
C26_ItemIffAnchoredBoundary ==
    call = "item" /\ pc = "returned" =>
        /\ ret.emit /= <<>> <=> Anchored /\ Len(RestTokens) >= 8 /\ Boundaries /= {}
        /\ ret.emit /= <<>> =>
              LET idx == Min(Boundaries)
                  item == ret.emit[1]
              IN  /\ item.company_code = arg[1].t /\ item.policy_no = arg[2].t
                  /\ item.insured_name = Title(Joined(SubSeq(RestTokens, 1, idx - 1)))
                  /\ item.bill_day = RestTokens[idx].t
                  /\ item.issue_date = date_to_iso(RestTokens[idx + 1].t)
                  /\ item.bill_no = TextAt(RestTokens, idx + 2)
                  /\ item.agency_code_line = TextAt(RestTokens, idx + 4)
                  /\ item.agent_num = TextAt(RestTokens, idx + 5)
\* an item of a line with two boundaries, the name cut at the left one
C26_Witness ==
    /\ call = "item" /\ pc = "returned"
    /\ Cardinality(Boundaries) >= 2 /\ Min(Boundaries) >= 2
    /\ ret.emit /= <<>>
    /\ ret.emit[1].insured_name = Title(Joined(SubSeq(RestTokens, 1, Min(Boundaries) - 1)))

(***************************************************************************)
(* app/returns.py, the older parse_return_items.  Its REASON_START is the  *)
(* set of config.py and its _date_iso is date_to_iso without the strip, the *)
(* same on a token.  It differs from the parser of app/parsers in two      *)
(* places: a line with a section title sets the section and is left        *)
(* (`continue`), and the agent name is None when the first trailing token  *)
(* starts the reason.                                                      *)
(***************************************************************************)
returns_AgentNameOf(rest2) ==
    LET reason_idx == ReasonIdx(rest2)
    IN  IF reason_idx = 0
        THEN (IF rest2 /= <<>> THEN Some(Title(Joined(SubSeq(rest2, 1, Len(rest2) - 1))))
              ELSE None)
        ELSE IF reason_idx > 1 THEN Some(Title(Joined(SubSeq(rest2, 1, reason_idx - 1))))
        ELSE None
returns_ItemOf(line, sec, reg, ag) ==
    LET tokens == [a \in 1..(Len(line) - 2) |-> line[a + 2]]
        pairs == {i \in 1..(Len(tokens) - 1) : tokens[i].f.bill_day /\ tokens[i + 1].f.date}
    IN  IF Len(tokens) < 8 THEN None
        ELSE IF pairs = {} THEN None
        ELSE LET idx == Min(pairs)
                 raw_amount == TokenAt(tokens, idx + 3)
                 rest2 == SubSeq(tokens, idx + 6, Len(tokens))
             IN  Some([section |-> sec,
                       company_code |-> line[1].t,
                       policy_no |-> line[2].t,
                       insured_name |-> Title(Joined(SubSeq(tokens, 1, idx - 1))),
                       bill_day |-> tokens[idx].t,
                       issue_date |-> tokens[idx + 1].f.iso,
                       bill_no |-> TextAt(tokens, idx + 2),
                       amount |-> IF IsSome(raw_amount) THEN Get(raw_amount).f.amount ELSE None,
                       agency_code_line |-> TextAt(tokens, idx + 4),
                       agent_num |-> TextAt(tokens, idx + 5),
                       agent_name |-> returns_AgentNameOf(rest2),
                       reason |-> ReasonOf(rest2),
                       page_region_code |-> reg.code,
                       page_region_desc |-> reg.desc,
                       page_agency_code |-> ag.code,
                       page_agency_desc |-> ag.desc])
\* one iteration of the loop of app/returns.py
returns_LoopBody(line, sec, reg, ag) ==
    LET same == [section |-> sec, region |-> reg, agency |-> ag,
                 emit |-> <<>>, list |-> "none"]
        item == returns_ItemOf(line, sec, reg, ag)
    IN  IF IsSome(REGION_RE(line))
        THEN [same EXCEPT !.region = Context(Get(REGION_RE(line)))]
        ELSE IF IsSome(AGENCY_RE(line))
        THEN [same EXCEPT !.agency = Context(Get(AGENCY_RE(line)))]
        ELSE IF HasReturnedItems(line)
        THEN [same EXCEPT !.section = Some("RETURNED ITEMS")]
        ELSE IF HasReturnedPreNotes(line)
        THEN [same EXCEPT !.section = Some("RETURNED PRE-NOTES")]
        ELSE IF ~ItemAnchor(line) \/ IsNone(item)
        THEN same
        ELSE [same EXCEPT !.emit = item,
                          !.list = IF sec = Some("RETURNED PRE-NOTES")
                                   THEN "returned_pre_notes" ELSE "returned_items"]

\* the locals of a loop before its first line
LoopStart ==
    [section |-> None, region |-> NoContext, agency |-> NoContext,
     returned_items |-> <<>>, returned_pre_notes |-> <<>>]
\* the locals l after one more iteration that did b
AfterLine(l, b) ==
    [section |-> b.section, region |-> b.region, agency |-> b.agency,
     returned_items |-> IF b.list = "returned_items" THEN l.returned_items \o b.emit
                        ELSE l.returned_items,
     returned_pre_notes |-> IF b.list = "returned_pre_notes" THEN l.returned_pre_notes \o b.emit
                            ELSE l.returned_pre_notes]
Returned(l) == [returned_items |-> l.returned_items, returned_pre_notes |-> l.returned_pre_notes]

\* app.parsers.returns_parser.parse_return_items on the lines of a text
RECURSIVE ParsersLoop(_, _)
ParsersLoop(lines, l) ==
    IF lines = <<>> THEN l
    ELSE ParsersLoop(Tail(lines),
             AfterLine(l, ReturnsStep[Head(lines), l.section, l.region, l.agency]))
parsers_parse_return_items(lines) == Returned(ParsersLoop(lines, LoopStart))
\* app.returns.parse_return_items on the lines of a text
ReturnsLegacyStep == [line \in ReturnLines, sec \in Sections, reg \in Regions, ag \in Agencies |->
                         returns_LoopBody(Lex(line), sec, reg, ag)]
RECURSIVE ReturnsLoop(_, _)
ReturnsLoop(lines, l) ==
    IF lines = <<>> THEN l
    ELSE ReturnsLoop(Tail(lines),
             AfterLine(l, ReturnsLegacyStep[Head(lines), l.section, l.region, l.agency]))
returns_parse_return_items(lines) == Returned(ReturnsLoop(lines, LoopStart))

\* both implementations on the same text
InitBoth ==
    /\ call = "both" /\ pc = "call"
    /\ arg \in UNION {[1..n -> ReturnLines] : n \in 0..MaxLines}
    /\ ret = None
    /\ Locals
BothCall ==
    /\ call = "both" /\ pc = "call"
    /\ ret' = [parsers |-> parsers_parse_return_items(arg),
               returns |-> returns_parse_return_items(arg)]
    /\ pc' = "returned"
    /\ UNCHANGED <<call, text, arg, reportVars, returnsVars, serviceVars>>
SpecBoth == InitBoth /\ [][BothCall]_vars

\* C27: the two implementations of parse_return_items return the same
\* returned_items and the same returned_pre_notes for every text.
C27_ImplementationsAgree ==
    call = "both" /\ pc = "returned" => ret.parsers = ret.returns

(***************************************************************************)
(* /compare/preview and /compare/confirm (app/routes/csv_routes.py) over   *)
(* file_service.upload_cache.  Both handlers are coroutines of one event   *)
(* loop: a handler runs from one await that gives the loop back to the     *)
(* next, and `running` is the request that holds the loop.  A token is the *)
(* number of the uuid4 drawn, a cached content the number of the request   *)
(* that sent it.                                                           *)
(***************************************************************************)
MaxUploads == 1
MaxConfirms == 2

\* cache_upload: upload_cache[token] = {...}
cache_upload(cache, token, filename, content) ==
    (token :> [filename |-> filename, content |-> content]) @@ cache
\* upload_cache.get(token)
get_cached_upload(cache, token) ==
    IF token \in DOMAIN cache THEN Some(cache[token]) ELSE None
\* remove_cached_upload with a fault: the entry is kept
remove_cached_upload_Keeps(cache, token) == cache
\* `if token in upload_cache: del upload_cache[token]`
remove_cached_upload(cache, token) ==
    IF token \in DOMAIN cache THEN [t \in DOMAIN cache \ {token} |-> cache[t]] ELSE cache

\* the awaits at which a handler gives the loop back.  file.read() and
\* file.close() of an upload may go to the thread pool; cache_upload and
\* upload_file_to_back4app are coroutines without an await of their own
\* (requests.post blocks), so awaiting them does not suspend.
Suspends_AsyncUpload(point) ==
    point \in {"read_upload_with_limit", "csv_file.close", "upload_file_to_back4app"}
Suspends(point) == point \in {"read_upload_with_limit", "csv_file.close"}

\* the outcomes of upload_file_to_back4app: both posts done; the file post
\* raised; the file is stored and the post of the Csv object raised
UploadOutcomes == {"ok", "upload_failed", "class_failed"}

Request(op, token) ==
    [op |-> op, token |-> token, pc |-> "start", response |-> 0, cached_data |-> None]
Requests == DOMAIN requests
Of(op) == {r \in Requests : requests[r].op = op}
\* request r may run: the loop is free or r holds it
Scheduled(r) == running \in {0, r}
Reached(r, pc_) == r \in Requests /\ requests[r].pc = pc_ /\ Scheduled(r)
\* the handler of r goes on to pc_ through the await `point`
Goes(r, pc_, point) ==
    /\ requests' = [requests EXCEPT ![r].pc = pc_]
    /\ running' = IF Suspends(point) THEN 0 ELSE r
\* the handler of r ends with the status code `code`
Responds(r, code) ==
    /\ requests' = [requests EXCEPT ![r].pc = "done", ![r].response = code]
    /\ running' = 0

InitUploads ==
    /\ call = "uploads" /\ pc = "serving" /\ text = <<>> /\ arg = None /\ ret = None
    /\ status = None /\ out = <<>> /\ out_src = <<>>
    /\ section = None /\ region = NoContext /\ agency = NoContext
    /\ returned_items = <<>> /\ returned_pre_notes = <<>>
    /\ items_src = <<>> /\ pre_src = <<>>
    /\ Imported

\* the requests leave the rest of the application as it is
OnlyUploads == UNCHANGED <<callVars, reportVars, returnsVars, concurrentVars, logVars>>

\* a client posts a file to /compare/preview
PreviewArrives ==
    /\ call = "uploads" /\ Cardinality(Of("preview")) < MaxUploads
    /\ requests' = Append(requests, Request("preview", 0))
    /\ UNCHANGED <<upload_cache, tokens_issued, files, objects, running>>
    /\ OnlyUploads
\* a client posts a token, issued or not, to /compare/confirm
ConfirmArrives ==
    /\ call = "uploads" /\ Cardinality(Of("confirm")) < MaxConfirms
    /\ \E token \in 1..(MaxUploads + 1) :
          requests' = Append(requests, Request("confirm", token))
    /\ UNCHANGED <<upload_cache, tokens_issued, files, objects, running>>
    /\ OnlyUploads

\* preview_csv_comparison: the 400 for a file name that does not end in
\* .csv, else up to `await read_upload_with_limit(csv_file)`
PreviewStart(r) ==
    /\ Reached(r, "start") /\ requests[r].op = "preview"
    /\ \E csv \in BOOLEAN :
          IF csv THEN Goes(r, "read", "read_upload_with_limit") ELSE Responds(r, 400)
    /\ UNCHANGED <<upload_cache, tokens_issued, files, objects>>
    /\ OnlyUploads
\* the 413 of read_upload_with_limit, else up to `await csv_file.close()`
PreviewRead(r) ==
    /\ Reached(r, "read")
    /\ \E within_limit \in BOOLEAN :
          IF within_limit THEN Goes(r, "close", "csv_file.close") ELSE Responds(r, 413)
    /\ UNCHANGED <<upload_cache, tokens_issued, files, objects>>
    /\ OnlyUploads
\* `token = await cache_upload(...)`, the background task, the 200
PreviewCache(r) ==
    /\ Reached(r, "close")
    /\ tokens_issued' = tokens_issued + 1
    /\ upload_cache' = cache_upload(upload_cache, tokens_issued + 1, "file.csv", r)
    /\ requests' = [requests EXCEPT ![r].pc = "done", ![r].response = 200,
                                    ![r].token = tokens_issued + 1]
    /\ running' = 0
    /\ UNCHANGED <<files, objects>>
    /\ OnlyUploads

\* confirm_csv_upload: the lookup and the 404, else up to
\* `await upload_file_to_back4app(...)`
ConfirmLookup(r) ==
    /\ Reached(r, "start") /\ requests[r].op = "confirm"
    /\ LET cached_data == get_cached_upload(upload_cache, requests[r].token)
       IN  IF IsNone(cached_data) THEN Responds(r, 404)
           ELSE /\ requests' = [requests EXCEPT ![r].pc = "found",
                                                ![r].cached_data = cached_data]
                /\ running' = IF Suspends("upload_file_to_back4app") THEN 0 ELSE r
    /\ UNCHANGED <<upload_cache, tokens_issued, files, objects>>
    /\ OnlyUploads
\* upload_file_to_back4app: the two posts, an HTTPException 500 when one raises
ConfirmUpload(r) ==
    /\ Reached(r, "found")
    /\ \E outcome \in UploadOutcomes :
          LET content == Get(requests[r].cached_data).content
          IN  /\ files' = IF outcome = "upload_failed" THEN files ELSE Append(files, content)
              /\ objects' = IF outcome = "ok" THEN Append(objects, content) ELSE objects
              /\ IF outcome = "ok"
                 THEN requests' = [requests EXCEPT ![r].pc = "uploaded"] /\ running' = r
                 ELSE Responds(r, 500)
    /\ UNCHANGED <<upload_cache, tokens_issued>>
    /\ OnlyUploads
\* remove_cached_upload(token), the background task, the 200
ConfirmRemove(r) ==
    /\ Reached(r, "uploaded")
    /\ upload_cache' = remove_cached_upload(upload_cache, requests[r].token)
    /\ Responds(r, 200)
    /\ UNCHANGED <<tokens_issued, files, objects>>
    /\ OnlyUploads

NextUploads ==
    \/ PreviewArrives
    \/ ConfirmArrives
    \/ \E r \in Requests : PreviewStart(r)
    \/ \E r \in Requests : PreviewRead(r)
    \/ \E r \in Requests : PreviewCache(r)
    \/ \E r \in Requests : ConfirmLookup(r)
    \/ \E r \in Requests : ConfirmUpload(r)
    \/ \E r \in Requests : ConfirmRemove(r)
SpecUploads == InitUploads /\ [][NextUploads]_vars

\* the confirms of token t that have ended with the status code `code`
Confirms(t, code) ==
    {r \in Of("confirm") : requests[r].token = t /\ requests[r].response = code}
IssuedTokens == 1..tokens_issued
ConfirmedTokens == {t \in IssuedTokens : Confirms(t, 200) /= {}}
\* request r ends in this step with the status code `code`
Ends(r, code) == requests[r].response = 0 /\ requests'[r].response = code

\* C28: a token is in the cache exactly when it was issued and no confirm of
\* it has succeeded; a confirm of a token that is not in the cache ends 404
\* and leaves the cache as it is; a confirm whose upload fails leaves the
\* entry; a confirm that succeeds removes it.
C28_CacheHoldsUnconfirmedTokens ==
    /\ [](call = "uploads" => DOMAIN upload_cache = IssuedTokens \ ConfirmedTokens)
    /\ [][\A r \in Of("confirm") :
            /\ requests[r].pc = "start" /\ requests'[r].pc /= "start"
                   /\ requests[r].token \notin DOMAIN upload_cache
               => Ends(r, 404) /\ upload_cache' = upload_cache
            /\ Ends(r, 404) => requests[r].token \notin DOMAIN upload_cache
            /\ Ends(r, 500) => requests[r].token \in DOMAIN upload_cache'
                                  /\ upload_cache' = upload_cache
            /\ Ends(r, 200) => requests[r].token \in DOMAIN upload_cache
                                  /\ requests[r].token \notin DOMAIN upload_cache']_vars
\* a confirm failed in the upload and left the entry, the next one succeeded
\* and removed it
C28_Witness ==
    /\ call = "uploads"
    /\ \E t \in IssuedTokens :
          /\ Confirms(t, 500) /= {} /\ Confirms(t, 200) /= {}
          /\ t \notin DOMAIN upload_cache

\* the confirms of token t that are between their lookup and their removal
Holding(t) ==
    {r \in Of("confirm") : requests[r].token = t /\ requests[r].pc \in {"found", "uploaded"}}
\* the Csv objects made of the file that was cached under token t
ObjectsOf(t) == {i \in DOMAIN objects : requests[objects[i]].token = t}
max_size == 1000
StreamLimit == 100
MaxNewLogs == 2
\* the numbers of entries in the buffer when the client connects
Backlogs == {0, 1, StreamLimit - 1, StreamLimit}

\* deque(maxlen=max_size).append(log_entry)
add_log(buf, log_entry) ==
    IF Len(buf) = max_size THEN Append(Tail(buf), log_entry) ELSE Append(buf, log_entry)
\* `logs[-limit:] if logs else []`
get_recent_logs(buf, limit) ==
    IF Len(buf) > limit THEN SubSeq(buf, Len(buf) - limit + 1, Len(buf)) ELSE buf
\* the number of the entry logged last
Logged == IF buffer = <<>> THEN 0 ELSE buffer[Len(buffer)]

InitLogs ==
    /\ call \in {"stream_logs", "LogSubscriber"} /\ pc = "serving"
    /\ text = <<>> /\ arg = None /\ ret = None
    /\ status = None /\ out = <<>> /\ out_src = <<>>
    /\ section = None /\ region = NoContext /\ agency = NoContext
    /\ returned_items = <<>> /\ returned_pre_notes = <<>>
    /\ items_src = <<>> /\ pre_src = <<>>
    /\ config = [POLICY_COLUMN_CANDIDATES |-> Preferred]
    /\ invocations = <<>>
    /\ upload_cache = <<>> /\ tokens_issued = 0
    /\ files = <<>> /\ objects = <<>>
    /\ requests = <<>> /\ running = 0
    /\ \E n \in Backlogs : buffer = [e \in 1..n |-> e]
    /\ active_subscribers = {} /\ subscriber = None /\ stream = "none"
    /\ received = <<>> /\ connected_at = 0

\* logging and streaming leave the rest of the application as it is
OnlyLogs == UNCHANGED <<callVars, reportVars, returnsVars, concurrentVars, uploadVars>>
\* LogSubscriber.__init__
NewSubscriber == [active |-> TRUE, last_log_count |-> 0]
\* some part of the application logs an entry while the client is connected
AddLog ==
    /\ stream /= "none" /\ Logged < connected_at + MaxNewLogs
    /\ buffer' = add_log(buffer, Logged + 1)
    /\ UNCHANGED <<active_subscribers, subscriber, stream, received, connected_at>>
    /\ OnlyLogs
\* stream_logs up to the StreamingResponse: the subscriber is made and listed,
\* the generator get_logs() is made and not yet run
StreamLogsCalled ==
    /\ call = "stream_logs" /\ stream = "none"
    /\ subscriber' = Some(NewSubscriber)
    /\ active_subscribers' = {"subscriber"}
    /\ stream' = "handler"
    /\ connected_at' = Logged
    /\ UNCHANGED <<buffer, received>>
    /\ OnlyLogs
\* stream_logs: the `finally` of the handler, run as the handler returns the
\* response: subscriber.stop() and the removal from active_subscribers
StreamLogsReturns ==
    /\ stream = "handler"
    /\ subscriber' = Some([Get(subscriber) EXCEPT !.active = FALSE])
    /\ active_subscribers' = active_subscribers \ {"subscriber"}
    /\ stream' = "response"
    /\ UNCHANGED <<buffer, received, connected_at>>
    /\ OnlyLogs
\* a subscriber made and iterated by its owner, without the route
SubscriberMade ==
    /\ call = "LogSubscriber" /\ stream = "none"
    /\ subscriber' = Some(NewSubscriber)
    /\ stream' = "response"
    /\ connected_at' = Logged
    /\ UNCHANGED <<buffer, active_subscribers, received>>
    /\ OnlyLogs
\* LogSubscriber.stop(), called by the owner
SubscriberStopped ==
    /\ call = "LogSubscriber" /\ stream \in {"response", "streaming"}
    /\ Get(subscriber).active
    /\ subscriber' = Some([Get(subscriber) EXCEPT !.active = FALSE])
    /\ UNCHANGED <<buffer, active_subscribers, stream, received, connected_at>>
    /\ OnlyLogs
\* get_logs: one turn of `while self.active`, the entries behind
\* last_log_count of the recent logs sent, or a heartbeat, then the sleep
GetLogsTurn ==
    /\ stream \in {"response", "streaming"} /\ Get(subscriber).active
    /\ LET current_logs == get_recent_logs(buffer, StreamLimit)
           last_log_count == Get(subscriber).last_log_count
       IN  IF Len(current_logs) > last_log_count
           THEN /\ received' = received \o SubSeq(current_logs, last_log_count + 1,
                                                  Len(current_logs))
                /\ subscriber' = Some([Get(subscriber) EXCEPT
                                           !.last_log_count = Len(current_logs)])
           ELSE UNCHANGED <<received, subscriber>>
    /\ stream' = "streaming"
    /\ UNCHANGED <<buffer, active_subscribers, connected_at>>
    /\ OnlyLogs
\* get_logs: `while self.active` is false, the generator and the response end
GetLogsEnds ==
    /\ stream \in {"response", "streaming"} /\ ~Get(subscriber).active
    /\ stream' = "closed"
    /\ UNCHANGED <<buffer, active_subscribers, subscriber, received, connected_at>>
    /\ OnlyLogs

NextLogs ==
    \/ AddLog
    \/ StreamLogsCalled
    \/ StreamLogsReturns
    \/ SubscriberMade
    \/ SubscriberStopped
    \/ GetLogsTurn
    \/ GetLogsEnds
SpecLogs == InitLogs /\ [][NextLogs]_vars
\* the server runs the handler to its return and the generator turn by turn
LiveSpecLogs ==
    /\ SpecLogs
    /\ WF_vars(StreamLogsCalled) /\ WF_vars(StreamLogsReturns)
    /\ WF_vars(SubscriberMade)
    /\ WF_vars(GetLogsTurn) /\ WF_vars(GetLogsEnds)

\* the k-th entry logged since the client connected
NewEntry(k) == connected_at + k
IsLogged(k) == stream /= "none" /\ Logged >= NewEntry(k)
IsReceived(k) == \E i \in 1..Len(received) : received[i] = NewEntry(k)
\* the stream was ended by the side that reads it
StoppedByOwner == call = "LogSubscriber" /\ stream = "closed"

\* C30: every entry logged after the client connected is received at last,
\* the new entries in the order of logging and once each, and the subscriber
\* is active for as long as the response is streamed, unless the client
\* ends the stream.
C30_EveryEntryReachesTheClient ==
    /\ \A k \in 1..MaxNewLogs : IsLogged(k) ~> (IsReceived(k) \/ StoppedByOwner)
    /\ [](\A i, j \in 1..Len(received) : i < j => received[i] < received[j])
    /\ [](call = "stream_logs" /\ stream \in {"response", "streaming"}
             => Get(subscriber).active)


(***************************************************************************)
(* Calls side by side.  Each invocation of parse_report,                   *)
(* parse_return_items, detect_policy_column or parse_csv_robust has its    *)
(* own locals l; what the invocations share is config.  An invocation      *)
(* runs one step at a time: one iteration of a loop over the lines, or one *)
(* statement group of the CSV functions, and between two of its steps the  *)
(* other invocations may take any number of theirs.                        *)
(***************************************************************************)
MaxInvocations == 2

\* parse_report on the lines of a text
RECURSIVE ReportLoop(_, _, _)
ReportLoop(lines, st, records) ==
    IF lines = <<>> THEN records
    ELSE IF ReportStep[Head(lines), st].exc THEN Raise("ValueError")
    ELSE ReportLoop(Tail(lines), ReportStep[Head(lines), st].status,
                    records \o ReportStep[Head(lines), st].emit)
parse_report(lines) == ReportLoop(lines, None, <<>>)

\* parse_csv_robust up to `if not rows: raise HTTPException`: the rows read,
\* read again from the normalised content when there are none or most of
\* them have their data in the first column
ReadRows(content) ==
    LET rows == DictReader(content)
        mostly == _mostly_in_first_column(rows)
    IN  IF rows /= <<>> /\ IsRaise(mostly)
        THEN [exc |-> Some("AttributeError"), repaired |-> FALSE, rows |-> <<>>]
        ELSE IF rows = <<>> \/ mostly = Some(TRUE)
        THEN LET again == DictReader(normalize_csv_content(content))
             IN  [exc |-> IF again = <<>> THEN Some("HTTPException") ELSE None,
                  repaired |-> TRUE, rows |-> again]
        ELSE [exc |-> None, repaired |-> FALSE, rows |-> rows]

\* a list a local name is bound to: the module-level list itself, or a list
\* of the invocation's own with its items
\* `candidates = POLICY_COLUMN_CANDIDATES` : no copy, the name is bound to the shared list
ListCopy_Alias(list) == [shared |-> TRUE, items |-> <<>>]
\* `candidates = POLICY_COLUMN_CANDIDATES.copy()`
ListCopy(list) == [shared |-> FALSE, items |-> list]
Items(candidates) ==
    IF candidates.shared THEN config.POLICY_COLUMN_CANDIDATES ELSE candidates.items
\* `for col in rows[0].keys(): if col not in candidates: candidates.append(col)`
RECURSIVE Extended(_, _)
Extended(items, keys) ==
    IF keys = <<>> THEN items
    ELSE Extended(IF \E a \in 1..Len(items) : items[a] = Head(keys) THEN items
                  ELSE Append(items, Head(keys)),
                  Tail(keys))

\* the texts and files of the invocations
ConcurrentReport ==
    <<Sp(<<"ISSUED">>),
      Sp(<<"0108338110", "SMITH", "JOHN", "DSI5N", "52.61", "123456", "DOE">>)>>
ConcurrentReturns ==
    <<Sp(<<"RETURNED", "PRE-NOTES">>), Sp(ItemHead \o <<"JANE", "DOE", "NSF", "PAYMENT">>)>>
NoFile == Text(<<>>, FALSE)
FileB == Text(<<"B", "0108338110">>, TRUE)
FileAB == Text(<<"A,B", "0108338110,0108338111">>, TRUE)
Invocation(fn, input, pc_) ==
    [fn |-> fn, input |-> input, pc |-> pc_, result |-> None,
     began |-> FALSE, overlap |-> FALSE,
     l |-> [pos |-> 0, status |-> None, out |-> <<>>, returns |-> LoopStart,
            rows |-> <<>>, repaired |-> FALSE,
            candidates |-> [shared |-> FALSE, items |-> <<>>], detected |-> None]]
Invocations ==
    {Invocation("parse_report", ConcurrentReport, "loop"),
     Invocation("parse_return_items", ConcurrentReturns, "loop")} \cup
    {Invocation("detect_policy_column", DictReader(f), "detect") : f \in {NoFile, FileB}} \cup
    {Invocation("parse_csv_robust", f, "read") : f \in {NoFile, FileAB}}

InitConcurrent ==
    /\ call = "concurrent" /\ pc = "serving" /\ text = <<>> /\ arg = None /\ ret = None
    /\ status = None /\ out = <<>> /\ out_src = <<>>
    /\ section = None /\ region = NoContext /\ agency = NoContext
    /\ returned_items = <<>> /\ returned_pre_notes = <<>>
    /\ items_src = <<>> /\ pre_src = <<>>
    /\ config = [POLICY_COLUMN_CANDIDATES |-> Preferred]
    /\ invocations \in [1..MaxInvocations -> Invocations]
    /\ upload_cache = <<>> /\ tokens_issued = 0
    /\ files = <<>> /\ objects = <<>>
    /\ requests = <<>> /\ running = 0
    /\ buffer = <<>> /\ active_subscribers = {}
    /\ subscriber = None /\ stream = "none"
    /\ received = <<>> /\ connected_at = 0

OnlyInvocations == UNCHANGED <<callVars, reportVars, returnsVars, uploadVars, logVars>>
\* invocation i is between its first step and its end
Underway(i) == invocations[i].began /\ invocations[i].pc \notin {"returned", "raised"}
\* invocation i, of one of the functions fn, is at pc_
Runs(i, fn, pc_) ==
    /\ call = "concurrent"
    /\ invocations[i].fn \in fn /\ invocations[i].pc = pc_
\* the step of invocation i that leaves it as v
Becomes(i, v) ==
    invocations' = [invocations EXCEPT ![i] =
        [v EXCEPT !.began = TRUE,
                  !.overlap = @ \/ \E j \in DOMAIN invocations : j /= i /\ Underway(j)]]

\* parse_report: one iteration of `for raw in text.splitlines()`, or `return out`
ReportTurn(i) ==
    /\ Runs(i, {"parse_report"}, "loop")
    /\ LET v == invocations[i]
       IN  IF v.l.pos < Len(v.input)
           THEN LET b == ReportStep[v.input[v.l.pos + 1], v.l.status]
                IN  IF b.exc
                    THEN Becomes(i, [v EXCEPT !.pc = "raised",
                                              !.result = Some(Raise("ValueError"))])
                    ELSE Becomes(i, [v EXCEPT !.l.pos = @ + 1, !.l.status = b.status,
                                              !.l.out = @ \o b.emit])
           ELSE Becomes(i, [v EXCEPT !.pc = "returned", !.result = Some(v.l.out)])
    /\ UNCHANGED config
    /\ OnlyInvocations
\* parse_return_items: one iteration of `for ln in text.splitlines()`, or the return
ReturnsTurn(i) ==
    /\ Runs(i, {"parse_return_items"}, "loop")
    /\ LET v == invocations[i]
           r == v.l.returns
       IN  IF v.l.pos < Len(v.input)
           THEN Becomes(i, [v EXCEPT !.l.pos = @ + 1,
                    !.l.returns = AfterLine(r, ReturnsStep[v.input[v.l.pos + 1],
                                                           r.section, r.region, r.agency])])
           ELSE Becomes(i, [v EXCEPT !.pc = "returned", !.result = Some(Returned(r))])
    /\ UNCHANGED config
    /\ OnlyInvocations
\* parse_csv_robust up to the call of detect_policy_column
CsvRead(i) ==
    /\ Runs(i, {"parse_csv_robust"}, "read")
    /\ LET v == invocations[i]
           read == ReadRows(v.input)
       IN  IF read.exc /= None
           THEN Becomes(i, [v EXCEPT !.pc = "raised",
                                     !.result = Some(Failed(Get(read.exc), read.repaired))])
           ELSE Becomes(i, [v EXCEPT !.pc = "detect", !.l.rows = read.rows,
                                     !.l.repaired = read.repaired])
    /\ UNCHANGED config
    /\ OnlyInvocations
\* detect_policy_column: `if not rows: return None`, else the candidates
CandidatesCopy(i) ==
    /\ Runs(i, {"detect_policy_column", "parse_csv_robust"}, "detect")
    /\ LET v == invocations[i]
           rows == IF v.fn = "detect_policy_column" THEN v.input ELSE v.l.rows
       IN  IF rows = <<>>
           THEN Becomes(i, [v EXCEPT !.pc = "returned", !.result = Some(None)])
           ELSE Becomes(i, [v EXCEPT !.pc = "extend", !.l.rows = rows,
                                     !.l.candidates = ListCopy(config.POLICY_COLUMN_CANDIDATES)])
    /\ UNCHANGED config
    /\ OnlyInvocations
\* detect_policy_column: the loop that appends the columns of the first row
CandidatesExtend(i) ==
    /\ Runs(i, {"detect_policy_column", "parse_csv_robust"}, "extend")
    /\ LET v == invocations[i]
           longer == Extended(Items(v.l.candidates), Keys(v.l.rows[1]))
       IN  IF v.l.candidates.shared
           THEN /\ config' = [config EXCEPT !.POLICY_COLUMN_CANDIDATES = longer]
                /\ Becomes(i, [v EXCEPT !.pc = "score"])
           ELSE /\ UNCHANGED config
                /\ Becomes(i, [v EXCEPT !.pc = "score", !.l.candidates.items = longer])
    /\ OnlyInvocations
\* detect_policy_column: the loop over the candidates and the return
CandidatesScore(i) ==
    /\ Runs(i, {"detect_policy_column", "parse_csv_robust"}, "score")
    /\ LET v == invocations[i]
           column == Accepted(BestFrom(v.l.rows, Items(v.l.candidates), 1, Zero, None))
       IN  IF v.fn = "detect_policy_column"
           THEN Becomes(i, [v EXCEPT !.pc = "returned", !.result = Some(column)])
           ELSE Becomes(i, [v EXCEPT !.pc = "clean", !.l.detected = column])
    /\ UNCHANGED config
    /\ OnlyInvocations
\* parse_csv_robust after detect_policy_column: the fallback column and the rows
CsvClean(i) ==
    /\ Runs(i, {"parse_csv_robust"}, "clean")
    /\ LET v == invocations[i]
       IN  Becomes(i, [v EXCEPT !.pc = "returned",
                                !.result = Some(Detected(v.l.rows, v.l.repaired, v.l.detected))])
    /\ UNCHANGED config
    /\ OnlyInvocations

NextConcurrent ==
    \/ \E i \in 1..MaxInvocations : ReportTurn(i)
    \/ \E i \in 1..MaxInvocations : ReturnsTurn(i)
    \/ \E i \in 1..MaxInvocations : CsvRead(i)
    \/ \E i \in 1..MaxInvocations : CandidatesCopy(i)
    \/ \E i \in 1..MaxInvocations : CandidatesExtend(i)
    \/ \E i \in 1..MaxInvocations : CandidatesScore(i)
    \/ \E i \in 1..MaxInvocations : CsvClean(i)
SpecConcurrent == InitConcurrent /\ [][NextConcurrent]_vars

\* the result of the call of invocation v when nothing else runs
Alone(v) ==
    CASE v.fn = "parse_report" -> parse_report(v.input)
      [] v.fn = "parse_return_items" -> parsers_parse_return_items(v.input)
      [] v.fn = "detect_policy_column" -> detect_policy_column(v.input)
      [] v.fn = "parse_csv_robust" -> parse_csv_robust(v.input)
AloneOf == [v \in Invocations |-> Alone(v)]
Called(i) == Invocation(invocations[i].fn, invocations[i].input,
                        IF invocations[i].fn = "parse_csv_robust" THEN "read"
                        ELSE IF invocations[i].fn = "detect_policy_column" THEN "detect"
                        ELSE "loop")
Ended(i) == invocations[i].pc \in {"returned", "raised"}

\* C21: however the steps of independent invocations of parse_report,
\* parse_return_items, parse_csv_robust and detect_policy_column are
\* interleaved, an invocation that has ended has the result it has when it
\* runs alone, and the shared list POLICY_COLUMN_CANDIDATES is as it was
\* at import.
C21_InterleavedAsAlone ==
    call = "concurrent" =>
        /\ config.POLICY_COLUMN_CANDIDATES = Preferred
        /\ \A i \in DOMAIN invocations :
              Ended(i) => invocations[i].result = Some(AloneOf[Called(i)])
\* detect_policy_column and parse_csv_robust have ended on different files
\* with the columns B and A, each having taken a step while the other was
\* under way, the second with a candidate list longer than the shared one
C21_Witness ==
    /\ call = "concurrent"
    /\ \E i, j \in DOMAIN invocations :
          /\ i /= j /\ Ended(i) /\ Ended(j)
          /\ invocations[i].overlap /\ invocations[j].overlap
          /\ invocations[i].fn = "detect_policy_column"
          /\ invocations[j].fn = "parse_csv_robust"
          /\ invocations[i].result = Some(Some("B"))
          /\ invocations[j].result /= None
          /\ Get(invocations[j].result).detected = Some("A")
          /\ Len(invocations[j].l.candidates.items) > Len(config.POLICY_COLUMN_CANDIDATES)

====
